---------------------------- MODULE Spec2Model ----------------------------
(***************************************************************************)
(* A model of the Evolution Game engine (Phova/EvolutionGame).             *)
(*                                                                         *)
(* Unless a definition says otherwise it models                            *)
(* src/pre-version/EvolutionGameE1_5.py.  Card, ability, event and tile    *)
(* names are the source's enum members or an English rendering of the      *)
(* source's Chinese card names (given in the comments).                    *)
(*                                                                         *)
(* Conventions: players are the indices 0..NumPlayers-1 of self.players,   *)
(* None is NoPlayer.  A handler of the source is an operator from a game   *)
(* state to the SET of game states it can return in, one per outcome of    *)
(* its random choices.                                                     *)
(***************************************************************************)
EXTENDS Integers, Sequences, FiniteSets, TLC

(***************************************************************************)
(* Program constants                                                       *)
(***************************************************************************)
\* player_names = ["玩家1", "玩家2", "玩家3"]
NumPlayers == 3
\* GameBoard.__init__(grid_count = 24)
GridCount == 24
\* initialize_decks: 25 cooperation, 25 deception, 125 evolution cards
CooperationCards == 25
DeceptionCards == 25
EvolutionCards == 125
\* is_victorious: required = 20 - evolution_requirement_reduction
VictoryCards == 20
\* play_game: while not self.game_over and round_count <= 100
RoundCap == 100

(***************************************************************************)
(* Bounds of the model                                                     *)
(***************************************************************************)
\* DeckSpec: cards minted for the deck under test, largest draw request
DeckCards == 3
MaxDraw == 4
\* nested calls of the tile resolvers the interpreter allows before it raises
\* RecursionError
RecursionLimit == 3
\* TrustSpec: ability cards held when the tile is resolved
TrustAbilitiesHeld == 1
\* HawkSpec: ability cards held when the tile is resolved
HawkAbilitiesHeld == 1
\* SanctuarySpec: the ability cards the one holder holds, the hawk-dove
\* resolutions after the sanctuary
SanctuaryAbilitiesHeld == 1
MaxChallenges == 2
\* SwampSpec: the ability cards the one holder holds, the players holding
\* strategy cards
SwampAbilitiesHeld == 1
SwampPlayers == 2
\* E3Spec: turns of the player, Evolution cards the other tiles move
E3MaxTurns == 8
E3Swing == 1
\* RevealSpec: the ability cards the one holder holds, the queries made
RevealAbilitiesHeld == 2
MaxQueries == 3
\* NearestSpec: environment changes before the function is asked
NearestChanges == 1
\* E2Spec: players of the game, turns played
E2Players == 3
E2MaxTurns == 2
\* ReplaySpec: seconds the wall clock advances between the constructions,
\* phases of play_turn replayed
ReplayClock == 1
ReplaySteps == 8
\* EffectSpec: turns played from the deal, environment cards drawn in them
EffectTurns == 4
EffectChanges == 1
\* E3TrustSpec: resolutions of the TRUST_EVOLUTION tile in a row
E3TrustRounds == 2
\* DealSpec: the numbers of players a game is dealt for
MinDealPlayers == 2
MaxDealPlayers == 7
\* HandSpec: players whose hands the callers act on, cards drawn from each
\* deck after the deal, largest forfeit
HandPlayers == 1
HandDraws == 2
MaxForfeit == 2
\* BoardSpec: environment changes after the construction
MaxChanges == 2
\* Spec: the turns left before the round cap when the model starts
MaxTurns == 2

Players == 0 .. (NumPlayers - 1)
NoPlayer == -1

Min(a, b) == IF a < b THEN a ELSE b
Max(a, b) == IF a > b THEN a ELSE b
Range(s) == {s[i] : i \in 1 .. Len(s)}

VARIABLES
    deck,        \* a Deck object of distinct cards, [cards, discard_pile] (top of the pile = end of the list)
    drawn_cards, \* the list the last call on deck returned
    deck_op,     \* the last call on deck and its argument
    game,        \* the EvolutionGame object: players, board, decks, turn state
    pc,          \* where play_game / play_turn stands
    loop_round,  \* play_game's local round_count
    last_call    \* the last Player / Deck primitive a caller made, with its arguments

deckVars == <<deck, drawn_cards, deck_op>>
gameVars == <<game, pc, loop_round, last_call>>
vars == <<deck, drawn_cards, deck_op, game, pc, loop_round, last_call>>

\* the player whose turn it is
current == game.current_player_index

(***************************************************************************)
(* Deck                                                                    *)
(***************************************************************************)
\* All orders of the cards of list s: the outcomes of random.shuffle(s).
Shuffles(s) ==
    {t \in [1 .. Len(s) -> Range(s)] : \A i \in 1 .. Len(s) : \E j \in 1 .. Len(s) : t[j] = s[i]}

\* Deck.shuffle
shuffle(d) == {[d EXCEPT !.cards = t] : t \in Shuffles(d.cards)}

\* One iteration of the loop of Deck.draw on r = [deck, drawn_cards, stop, raised]:
\* a reshuffle of the discard pile when the draw pile is empty, then one pop
\* (list.pop() raises IndexError on an empty list).
draw_step_no_reshuffle(r) ==
    LET d == r.deck
    IN  {IF d.cards = <<>>
         THEN [r EXCEPT !.stop = TRUE]
         ELSE [r EXCEPT !.deck.cards = SubSeq(@, 1, Len(@) - 1),
                        !.drawn_cards = Append(@, d.cards[Len(d.cards)])]}

\* draw_step refilling the draw pile and leaving the discard pile as it is
draw_step_keeping_discard(r) ==
    LET d == r.deck
        refilled ==
            IF d.cards = <<>>
            THEN IF d.discard_pile # <<>>
                 THEN {[deck |-> s, stop |-> FALSE] :
                         s \in shuffle([cards |-> d.discard_pile, discard_pile |-> d.discard_pile])}
                 ELSE {[deck |-> d, stop |-> TRUE]}
            ELSE {[deck |-> d, stop |-> FALSE]}
    IN  {IF x.stop \/ x.deck.cards = <<>>
         THEN [r EXCEPT !.deck = x.deck, !.stop = x.stop]
         ELSE [r EXCEPT !.deck = [x.deck EXCEPT !.cards = SubSeq(@, 1, Len(@) - 1)],
                        !.drawn_cards = Append(@, x.deck.cards[Len(x.deck.cards)])] :
         x \in refilled}

draw_step(r) ==
    LET d == r.deck
        refilled ==
            IF d.cards = <<>>
            THEN IF d.discard_pile # <<>>
                 THEN {[deck |-> s, stop |-> FALSE] :
                         s \in shuffle([cards |-> d.discard_pile, discard_pile |-> <<>>])}
                 ELSE {[deck |-> d, stop |-> TRUE]}
            ELSE {[deck |-> d, stop |-> FALSE]}
    IN  {IF x.stop \/ x.deck.cards = <<>>
         THEN [r EXCEPT !.deck = x.deck, !.stop = x.stop]
         ELSE [r EXCEPT !.deck = [x.deck EXCEPT !.cards = SubSeq(@, 1, Len(@) - 1)],
                        !.drawn_cards = Append(@, x.deck.cards[Len(x.deck.cards)])] :
         x \in refilled}

RECURSIVE draw_loop(_, _)
draw_loop(R, count) ==
    IF count <= 0 THEN R
    ELSE draw_loop(UNION {IF r.stop THEN {r} ELSE draw_step(r) : r \in R}, count - 1)

\* Deck.draw(count): the set of results [deck, drawn_cards]
draw(d, count) ==
    {[deck |-> r.deck, drawn_cards |-> r.drawn_cards, raised |-> r.raised] :
        r \in draw_loop({[deck |-> d, drawn_cards |-> <<>>, stop |-> FALSE, raised |-> "none"]},
                        count)}

\* Deck.peek_top(count)
peek_top(d, count) ==
    IF Len(d.cards) >= count
    THEN IF count = 0 THEN d.cards   \* self.cards[-0:] is the whole list
         ELSE SubSeq(d.cards, Len(d.cards) - count + 1, Len(d.cards))
    ELSE d.cards

\* Deck.add_to_discard(card)
add_to_discard(d, card) == [d EXCEPT !.discard_pile = Append(@, card)]

\* Deck.is_empty
is_empty(d) == Len(d.cards) = 0 /\ Len(d.discard_pile) = 0

\* Deck.get_remaining_cards
get_remaining_cards(d) == Len(d.cards) + Len(d.discard_pile)

(***************************************************************************)
(* The decks of the game.  The cards of the cooperation, deception and     *)
(* evolution decks are interchangeable objects, so a pile of them is its   *)
(* length; the event, environment-change and ability decks hold one card   *)
(* per name, and the order random.shuffle gave them is decided when a card *)
(* is taken.                                                               *)
(***************************************************************************)
\* Deck.draw(count) on piles of interchangeable cards: [deck, drawn]
RECURSIVE pile_draw_loop(_, _, _)
pile_draw_loop(d, got, count) ==
    IF count <= 0 THEN [deck |-> d, drawn |-> got]
    ELSE IF d.cards = 0
         THEN IF d.discard_pile > 0
              THEN pile_draw_loop([cards |-> d.discard_pile - 1, discard_pile |-> 0],
                                  got + 1, count - 1)
              ELSE [deck |-> d, drawn |-> got]
         ELSE pile_draw_loop([d EXCEPT !.cards = @ - 1], got + 1, count - 1)

pile_draw(d, count) == pile_draw_loop(d, 0, count)

\* Deck.is_empty on a pile of interchangeable cards
pile_is_empty(d) == d.cards = 0 /\ d.discard_pile = 0

\* Deck.is_empty on a deck of named cards
named_is_empty(d) == d.cards = {} /\ d.discard_pile = {}

\* Deck.draw(1) on a deck of named cards: the results [deck, card], none when
\* both piles are empty
named_draw(d) ==
    LET src == IF d.cards = {} THEN d.discard_pile ELSE d.cards
    IN  {[deck |-> [cards |-> src \ {c}, discard_pile |-> IF d.cards = {} THEN {} ELSE d.discard_pile],
          card |-> c] : c \in src}

\* The function f as a table of its values: TLC keeps a function constructor
\* unevaluated, and nested EXCEPTs on an unevaluated constructor are not
\* supported by its evaluator
Table(f) == f @@ f

(***************************************************************************)
(* Player                                                                  *)
(***************************************************************************)
HandKinds == {"COOPERATION", "DECEPTION", "EVOLUTION", "EVENT"}

\* Player.__init__
NewPlayer ==
    [position |-> 0,
     hand |-> Table([k \in HandKinds |-> 0]),
     evolution_points |-> 0,
     abilities |-> {},
     used |-> {},                 \* the ability cards whose used flag is set
     is_eliminated |-> FALSE,
     symbiosis_target |-> NoPlayer,
     prey_target |-> NoPlayer,
     immune_to_disaster |-> FALSE,
     cannot_move_next_turn |-> FALSE,
     hand_limit_bonus |-> 0,
     evolution_requirement_reduction |-> 0,
     free_challenge_target |-> NoPlayer,
     energy_absorption_active |-> FALSE,
     energy_absorption_rounds |-> 0,
     climate_change_active |-> FALSE,
     climate_change_rounds |-> 0,
     forced_hawk_dove_target |-> NoPlayer,
     forced_deceive |-> FALSE,
     population_boom_active |-> FALSE,
     rich_land_active |-> FALSE,
     strategy_transform_used |-> FALSE,
     visited_finish |-> FALSE]

\* Player.reset_turn_flags
reset_turn_flags(pl) ==
    [pl EXCEPT !.strategy_transform_used = FALSE,
               !.population_boom_active = FALSE,
               !.rich_land_active = FALSE,
               !.forced_hawk_dove_target = NoPlayer,
               !.forced_deceive = FALSE]

\* Player.update_continuous_effects
update_continuous_effects(pl) ==
    LET a == IF pl.energy_absorption_active /\ pl.energy_absorption_rounds > 0
             THEN [pl EXCEPT !.energy_absorption_rounds = @ - 1,
                             !.energy_absorption_active = (pl.energy_absorption_rounds - 1 # 0)]
             ELSE pl
        b == IF a.climate_change_active /\ a.climate_change_rounds > 0
             THEN [a EXCEPT !.climate_change_rounds = @ - 1,
                            !.climate_change_active = (a.climate_change_rounds - 1 # 0)]
             ELSE a
    IN  [b EXCEPT !.immune_to_disaster = FALSE]

StrategyCount(pl) == pl.hand["COOPERATION"] + pl.hand["DECEPTION"]

\* Player.get_hand_limit
get_hand_limit(pl) == Max(0, (pl.hand["EVOLUTION"] \div 2) + pl.hand_limit_bonus)

\* list.pop() on one pile of the hand
pop_card(pl, kind) == [pl EXCEPT !.hand[kind] = @ - 1]

\* the discard loop of Player.check_hand_limit, n iterations left
RECURSIVE discard_excess(_, _)
discard_excess(pl, n) ==
    IF n <= 0 THEN {pl}
    ELSE IF pl.hand["COOPERATION"] > 0 /\ pl.hand["DECEPTION"] > 0
         THEN discard_excess(pop_card(pl, "COOPERATION"), n - 1)
              \cup discard_excess(pop_card(pl, "DECEPTION"), n - 1)
         ELSE IF pl.hand["COOPERATION"] > 0
              THEN discard_excess(pop_card(pl, "COOPERATION"), n - 1)
              ELSE IF pl.hand["DECEPTION"] > 0
                   THEN discard_excess(pop_card(pl, "DECEPTION"), n - 1)
                   ELSE discard_excess(pl, n - 1)

\* Player.check_hand_limit
check_hand_limit(pl) ==
    IF StrategyCount(pl) > get_hand_limit(pl)
    THEN discard_excess(pl, StrategyCount(pl) - get_hand_limit(pl))
    ELSE {pl}

\* add_card without the hand-limit check
add_card_unchecked(pl, kind) == {[pl EXCEPT !.hand[kind] = @ + 1]}

\* Player.add_card for a Cooperation, Deception, Evolution or Event card
add_card(pl, kind) ==
    LET got == [pl EXCEPT !.hand[kind] = @ + 1]
    IN  IF kind \in {"COOPERATION", "DECEPTION"} THEN check_hand_limit(got) ELSE {got}

\* Player.add_card for an Ability card (check_immediate_ability_effect only logs)
add_ability(pl, name) == [pl EXCEPT !.abilities = @ \cup {name}]

\* remove_card taking the cards that are there when the hand holds too few
remove_card_partial(pl, kind, count) ==
    IF pl.hand[kind] >= count
    THEN [ok |-> TRUE, player |-> [pl EXCEPT !.hand[kind] = @ - count]]
    ELSE [ok |-> FALSE, player |-> [pl EXCEPT !.hand[kind] = 0]]

\* Player.remove_card: [ok, player]
remove_card(pl, kind, count) ==
    IF pl.hand[kind] >= count
    THEN [ok |-> TRUE, player |-> [pl EXCEPT !.hand[kind] = @ - count]]
    ELSE [ok |-> FALSE, player |-> pl]

\* Player.has_evolution_cards
has_evolution_cards(pl, count) == pl.hand["EVOLUTION"] >= count

\* Player.get_evolution_card_count
get_evolution_card_count(pl) == pl.hand["EVOLUTION"]

\* Player.is_victorious
is_victorious(pl) ==
    get_evolution_card_count(pl) >= VictoryCards - pl.evolution_requirement_reduction

\* Player.has_ability
has_ability(pl, name) == name \in pl.abilities

\* Player.is_eliminated_check (last_stand is the card 绝境求生)
is_eliminated_check(pl) ==
    IF get_evolution_card_count(pl) = 0
    THEN IF has_ability(pl, "last_stand") /\ "last_stand" \notin pl.used
         THEN [pl EXCEPT !.used = @ \cup {"last_stand"}, !.hand["EVOLUTION"] = 3]
         ELSE [pl EXCEPT !.is_eliminated = TRUE]
    ELSE pl

(***************************************************************************)
(* GameBoard                                                               *)
(***************************************************************************)
GridTypes ==
    {"START", "TRUST_EVOLUTION", "HAWK_DOVE", "RESOURCE_RICH", "NATURAL_DISASTER",
     "COOPERATION_SANCTUARY", "DECEPTION_SWAMP", "MUTATION_EVENT", "EVOLUTION_LAB", "FINISH"}

Positions == 0 .. (GridCount - 1)

\* the list grid_types of GameBoard.initialize_grids
grid_types ==
    <<"RESOURCE_RICH", "TRUST_EVOLUTION", "NATURAL_DISASTER", "HAWK_DOVE",
      "COOPERATION_SANCTUARY", "DECEPTION_SWAMP", "MUTATION_EVENT", "EVOLUTION_LAB",
      "RESOURCE_RICH", "TRUST_EVOLUTION", "NATURAL_DISASTER", "HAWK_DOVE",
      "COOPERATION_SANCTUARY", "DECEPTION_SWAMP", "MUTATION_EVENT", "EVOLUTION_LAB",
      "RESOURCE_RICH", "TRUST_EVOLUTION", "NATURAL_DISASTER", "HAWK_DOVE",
      "COOPERATION_SANCTUARY", "DECEPTION_SWAMP", "MUTATION_EVENT", "FINISH">>

\* GameBoard.initialize_grids
initialize_grids == Table([i \in Positions |-> IF i = 0 THEN "START" ELSE grid_types[i]])

\* GameBoard.get_grid(position).grid_type
get_grid(board, position) == board[position % GridCount]

\* GameBoard.change_grid_type
change_grid_type(board, position, new_type) ==
    IF 0 <= position /\ position < GridCount
    THEN [board EXCEPT ![position] = new_type]
    ELSE board

\* GameBoard.find_grid_by_type: the position found, NoPlayer's value -1 for None
find_grid_by_type(board, grid_type, start_from) ==
    LET hits == {i \in 0 .. (GridCount - 1) : board[(start_from + i) % GridCount] = grid_type}
    IN  IF hits = {} THEN -1
        ELSE (start_from + (CHOOSE i \in hits : \A j \in hits : i <= j)) % GridCount

\* find_nearest_grid_by_type going backward when the two distances are equal
find_nearest_grid_by_type_backward(board, grid_type, from_position) ==
    LET fwd == {i \in 1 .. (GridCount - 1) : board[(from_position + i) % GridCount] = grid_type}
        bwd == {i \in 1 .. (GridCount - 1) : board[(from_position - i) % GridCount] = grid_type}
        forward_distance == CHOOSE i \in fwd : \A j \in fwd : i <= j
        backward_distance == CHOOSE i \in bwd : \A j \in bwd : i <= j
    IN  IF fwd = {} /\ bwd = {} THEN -1
        ELSE IF forward_distance < backward_distance
             THEN (from_position + forward_distance) % GridCount
             ELSE (from_position - backward_distance) % GridCount

\* GameBoard.find_nearest_grid_by_type: the position found, -1 for None
find_nearest_grid_by_type(board, grid_type, from_position) ==
    LET fwd == {i \in 1 .. (GridCount - 1) : board[(from_position + i) % GridCount] = grid_type}
        bwd == {i \in 1 .. (GridCount - 1) : board[(from_position - i) % GridCount] = grid_type}
        forward_distance == CHOOSE i \in fwd : \A j \in fwd : i <= j
        backward_distance == CHOOSE i \in bwd : \A j \in bwd : i <= j
    IN  IF fwd = {} /\ bwd = {} THEN -1
        ELSE IF fwd = {} THEN (from_position - backward_distance) % GridCount
        ELSE IF bwd = {} THEN (from_position + forward_distance) % GridCount
        ELSE IF forward_distance <= backward_distance
             THEN (from_position + forward_distance) % GridCount
             ELSE (from_position - backward_distance) % GridCount

(***************************************************************************)
(* EvolutionGame: construction                                             *)
(***************************************************************************)
\* initialize_decks: the 30 event cards
EventCards ==
    {"gene_mutation",          \* 基因突变
     "mass_migration",         \* 群体迁徙
     "predator_appears",       \* 天敌出现
     "mutualism",              \* 互利共生
     "natural_selection",      \* 自然选择
     "ecological_collapse",    \* 生态崩溃
     "accelerated_evolution",  \* 加速进化
     "predation",              \* 掠食行为
     "environmental_tolerance",\* 环境耐受
     "population_boom",        \* 种群繁荣
     "disease_spread",         \* 疾病传播
     "rich_land",              \* 富饶之地
     "order_reversal",         \* 秩序逆转
     "effect_copy",            \* 效果复制
     "energy_absorption",      \* 能量吸收
     "territory_dispute",      \* 领地争夺
     "climate_upheaval",       \* 气候剧变
     "movement_suppression",   \* 行动抑制
     "resource_scarcity",      \* 资源稀缺
     "three_way_game",         \* 三方博弈
     "truce",                  \* 停战协议
     "fraud_carnival",         \* 欺诈狂欢
     "cooperation_wave",       \* 合作浪潮
     "position_chaos",         \* 位置混乱
     "foresight",              \* 未来预知
     "space_jump",             \* 空间跳跃
     "intensified_competition",\* 竞争激化
     "trust_deficit",          \* 信任缺失
     "evolution_acceleration", \* 进化加速
     "miracle"}                \* 奇迹发生

\* initialize_decks: the 10 environment-change cards
EnvironmentCards ==
    {"drought",                    \* 干旱降临
     "oasis",                      \* 绿洲形成
     "earthquake",                 \* 地震破坏
     "ecological_recovery",        \* 生态恢复
     "path_change",                \* 路径改变
     "pleasant_climate",           \* 气候宜人
     "environmental_deterioration",\* 环境恶化
     "terrain_uplift",             \* 地形隆起
     "swamp_expansion",            \* 沼泽扩张
     "sanctuary_appears"}          \* 圣地显现

\* initialize_decks: the 20 ability cards
AbilityCards ==
    {"altruism_gene",          \* 利他基因
     "scheme_master",          \* 阴谋大师
     "environment_adaptation", \* 环境适应
     "efficient_metabolism",   \* 高效代谢
     "symbiosis_bond",         \* 共生纽带
     "defense_mechanism",      \* 防御机制
     "group_deterrence",       \* 群体威慑
     "opportunist",            \* 趁火打劫
     "tenacious_vitality",     \* 顽强生命力
     "strategy_transform",     \* 策略变形
     "evolution_burst",        \* 进化爆发
     "predator_instinct",      \* 捕食本能
     "resource_control",       \* 资源控制
     "disaster_expert",        \* 灾难专家
     "tactical_upgrade",       \* 战术升级
     "last_stand",             \* 绝境求生
     "eco_engineering",        \* 生态改造
     "evolution_advantage",    \* 进化优势
     "rapid_adaptation",       \* 快速适应
     "population_resilience"}  \* 种群韧性

\* the locals of the last resolve_trust_evolution, kept for inspection
NoTrust ==
    [targets |-> <<>>, actions |-> Table([q \in Players |-> "None"]),
     paid |-> Table([q \in Players |-> FALSE]),   \* remove_card took the card played
     settled |-> <<>>,
     before |-> [points |-> <<>>, evolution |-> <<>>, evolution_deck |-> <<>>]]

\* EvolutionGame.__init__ up to initialize_decks
NewGame ==
    [players |-> Table([p \in Players |-> NewPlayer]),
     board |-> initialize_grids,
     current_player_index |-> 0,
     turn_order_clockwise |-> TRUE,
     game_over |-> FALSE,
     winner |-> NoPlayer,
     round_count |-> 0,
     last_event_card |-> "None",
     climate_pleasant_active |-> FALSE,
     environment_deterioration_active |-> FALSE,
     environment_deterioration_rounds |-> 0,
     cooperation_deck |-> [cards |-> CooperationCards, discard_pile |-> 0],
     deception_deck |-> [cards |-> DeceptionCards, discard_pile |-> 0],
     evolution_deck |-> [cards |-> EvolutionCards, discard_pile |-> 0],
     event_deck |-> [cards |-> EventCards, discard_pile |-> {}],
     environment_change_deck |-> [cards |-> EnvironmentCards, discard_pile |-> {}],
     ability_deck |-> [cards |-> AbilityCards, discard_pile |-> {}],
     raised |-> "none",       \* the exception that escaped, if any
     trust |-> NoTrust]

\* a statement sequence: F runs on every outcome of S no exception escaped from
Bind(S, F(_)) == UNION {IF s.raised # "none" THEN {s} ELSE F(s) : s \in S}

\* [p for p in self.players if p != player and not p.is_eliminated]
others(g, p) == {q \in Players : q # p /\ ~g.players[q].is_eliminated}

\* random.choice over a list that may be empty: None when it is
choice_or_none(S) == IF S = {} THEN {NoPlayer} ELSE S

\* cards = self.evolution_deck.draw(count); for card in cards: p.add_card(card)
draw_evolution(g, p, count) ==
    LET r == pile_draw(g.evolution_deck, count)
    IN  [g EXCEPT !.evolution_deck = r.deck, !.players[p].hand["EVOLUTION"] = @ + r.drawn]

\* the strategy deck an ActionType names
deck_of(action_type) == IF action_type = "COOPERATE" THEN "cooperation_deck" ELSE "deception_deck"
kind_of(action_type) == IF action_type = "COOPERATE" THEN "COOPERATION" ELSE "DECEPTION"
opposite(action_type) == IF action_type = "COOPERATE" THEN "DECEIVE" ELSE "COOPERATE"

\* EvolutionGame.safe_draw_strategy_card
safe_draw_strategy_card(g, action_type, p) ==
    LET d == deck_of(action_type)
    IN  IF pile_is_empty(g[d]) THEN {g}
        ELSE LET r == pile_draw(g[d], 1)
             IN  IF r.drawn = 0 THEN {[g EXCEPT ![d] = r.deck]}
                 ELSE {[g EXCEPT ![d] = r.deck, !.players[p] = pl] :
                          pl \in add_card(g.players[p], kind_of(action_type))}

\* self.players as a list
PlayerList == [i \in 1 .. NumPlayers |-> i - 1]

\* for x in seq: F(state, x), in list order
ForEach(S, seq, F(_, _)) ==
    LET f[i \in 0 .. Len(seq)] ==
            IF i = 0 THEN S ELSE Bind(f[i - 1], LAMBDA s : F(s, seq[i]))
    IN  f[Len(seq)]

\* [p for p in self.players if not p.is_eliminated], as a list
active_list(g) == SelectSeq(PlayerList, LAMBDA q : ~g.players[q].is_eliminated)

\* for card in cards: player.add_card(card), the cards all of one kind
RECURSIVE add_cards(_, _, _)
add_cards(pl, kind, n) ==
    IF n <= 0 THEN {pl}
    ELSE UNION {add_cards(q, kind, n - 1) : q \in add_card(pl, kind)}

\* EvolutionGame.initial_deal, the body of the loop for one player
deal_player(g, p) ==
    LET g1 == draw_evolution(g, p, 5)
        strategy_card_count == NumPlayers - 1
        c == pile_draw(g1.cooperation_deck, strategy_card_count \div 2)
        d == pile_draw(g1.deception_deck, strategy_card_count - c.drawn)
    IN  {[g1 EXCEPT !.cooperation_deck = c.deck, !.deception_deck = d.deck, !.players[p] = pl2] :
            pl2 \in UNION {add_cards(pl1, "DECEPTION", d.drawn) :
                              pl1 \in add_cards(g1.players[p], "COOPERATION", c.drawn)}}

\* EvolutionGame.initial_deal
initial_deal(g) == ForEach({g}, PlayerList, deal_player)

\* the games EvolutionGame(player_names) can construct
InitialGames == initial_deal(NewGame)

(***************************************************************************)
(* EvolutionGame: abilities                                                *)
(***************************************************************************)
\* apply_ability_effects, 利他基因 and 阴谋大师: the pairs [g, tp] of the game
\* and the local target_player after the first two blocks
ability_targets(g, p, action_type, target_player) ==
    LET pl == g.players[p]
        picked == IF target_player = NoPlayer
                  THEN choice_or_none(others(g, p)) ELSE {target_player}
    IN  IF action_type = "COOPERATE" /\ has_ability(pl, "altruism_gene")
        THEN {[g |-> IF t = NoPlayer THEN g ELSE draw_evolution(g, t, 1), tp |-> t] :
                 t \in picked}
        ELSE IF action_type = "DECEIVE" /\ has_ability(pl, "scheme_master")
             THEN {[g |-> g, tp |-> t] : t \in picked}
             ELSE {[g |-> g, tp |-> target_player]}

\* apply_ability_effects from 环境适应 on: the results [g, ret]
ability_rest(g, p, action_type, context, tp, original_action) ==
    LET pl == g.players[p]
        g1 == IF context = "establish_symbiosis" /\ has_ability(pl, "symbiosis_bond")
                 /\ tp # NoPlayer /\ tp # p
              THEN [g EXCEPT !.players[p].symbiosis_target = tp] ELSE g
        may_transform == /\ context = "before_reveal"
                         /\ has_ability(pl, "strategy_transform")
                         /\ ~pl.strategy_transform_used
        g2 == IF context = "hawk_dove" /\ has_ability(pl, "predator_instinct") /\ tp # NoPlayer
                 /\ (pl.prey_target = tp \/ g1.players[tp].prey_target = p)
              THEN draw_evolution(g1, p, 1) ELSE g1
        g3 == IF context = "environment_change" /\ has_ability(pl, "rapid_adaptation")
              THEN draw_evolution(g2, p, 1) ELSE g2
        g4 == IF context = "natural_disaster" /\ action_type = "COOPERATE"
                 /\ has_ability(pl, "population_resilience")
              THEN draw_evolution(g3, p, 1) ELSE g3
    IN  {[g |-> g4, ret |-> "None"]}
        \cup IF may_transform /\ original_action # "None"
             THEN {[g |-> [g1 EXCEPT !.players[p].strategy_transform_used = TRUE],
                    ret |-> opposite(original_action)]}
             ELSE {}

\* EvolutionGame.apply_ability_effects: the results [g, ret], ret the new
\* action type or "None"
apply_ability_effects(g, p, action_type, context, target_player, original_action) ==
    UNION {ability_rest(x.g, p, action_type, context, x.tp, original_action) :
              x \in ability_targets(g, p, action_type, target_player)}

\* apply_ability_effects called as a statement
ability_effects(g, p, action_type, context, target_player) ==
    {x.g : x \in apply_ability_effects(g, p, action_type, context, target_player, "None")}

\* EvolutionGame.replenish_strategy_cards, one player of the list
replenish_one(g, p, specific_type) ==
    IF g.players[p].is_eliminated THEN {g}
    ELSE IF specific_type # "None"
         THEN safe_draw_strategy_card(g, specific_type, p)
         ELSE safe_draw_strategy_card(g, "COOPERATE", p)
              \cup safe_draw_strategy_card(g, "DECEIVE", p)

\* EvolutionGame.replenish_strategy_cards
replenish_strategy_cards(g, players, specific_type) ==
    ForEach({g}, players, LAMBDA s, p : replenish_one(s, p, specific_type))

(***************************************************************************)
(* EvolutionGame.resolve_trust_evolution                                   *)
(***************************************************************************)
\* a dict as the list of its items <<key, value>> in insertion order
dict_has(d, k) == \E i \in 1 .. Len(d) : d[i][1] = k
dict_get(d, k) == d[CHOOSE i \in 1 .. Len(d) : d[i][1] = k][2]
dict_set(d, k, v) ==
    IF dict_has(d, k)
    THEN Table([i \in 1 .. Len(d) |-> IF d[i][1] = k THEN <<k, v>> ELSE d[i]])
    ELSE Append(d, <<k, v>>)

\* what a settlement can change of the Evolution cards and the points
snapshot(g) ==
    [points |-> [q \in Players |-> g.players[q].evolution_points],
     evolution |-> [q \in Players |-> g.players[q].hand["EVOLUTION"]],
     evolution_deck |-> g.evolution_deck]

\* target selection, the body of the loop for one player
trust_choose_target(g, current_player, player) ==
    LET cur == g.players[current_player]
        deterred == {q \in Players :
                        /\ q # player
                        /\ ~g.players[q].is_eliminated
                        /\ get_evolution_card_count(g.players[q]) < get_evolution_card_count(cur)}
        first == CHOOSE q \in deterred : \A r \in deterred : q <= r
        normal == {[g EXCEPT !.trust.targets = dict_set(g.trust.targets, player, t)] : t \in others(g, player)}
    IN  IF g.players[player].is_eliminated THEN {g}
        ELSE IF has_ability(cur, "group_deterrence")
             THEN IF deterred # {}
                  THEN {[g EXCEPT !.trust.targets = dict_set(g.trust.targets, first, current_player)]}
                  ELSE IF others(g, player) = {} THEN {g} ELSE normal
             ELSE IF others(g, player) = {} THEN {g} ELSE normal

\* playing the cards, the body of the loop for one player
trust_play_card(g, player) ==
    LET pl == g.players[player]
        original_choices ==
            IF pl.hand["COOPERATION"] > 0 /\ pl.hand["DECEPTION"] > 0
            THEN {"COOPERATE", "DECEIVE"}
            ELSE IF pl.hand["COOPERATION"] > 0 THEN {"COOPERATE"}
            ELSE IF pl.hand["DECEPTION"] > 0 THEN {"DECEIVE"}
            ELSE {}
        played(x, original_choice) ==
            LET action == IF x.ret # "None" THEN x.ret ELSE original_choice
            IN  [x.g EXCEPT !.trust.actions[player] = action,
                            !.trust.paid[player] =
                                remove_card(x.g.players[player], kind_of(action), 1).ok,
                            !.players[player] =
                                remove_card(x.g.players[player], kind_of(action), 1).player]
    IN  IF pl.is_eliminated \/ ~dict_has(g.trust.targets, player) THEN {g}
        ELSE IF original_choices = {} THEN {g}
        ELSE UNION {{played(x, c) :
                        x \in apply_ability_effects(g, player, c, "before_reveal", NoPlayer, c)} :
                    c \in original_choices}

\* the two apply_ability_effects calls that close a payoff branch
trust_abilities(g, player, target) ==
    Bind(ability_effects(g, player, g.trust.actions[player], "trust_evolution", target),
         LAMBDA k : ability_effects(k, target, k.trust.actions[target], "trust_evolution", player))

\* the payoff of a pair with Cooperate against Cooperate, one point short for
\* the target
cooperate_cooperate_short(g, player, target) ==
    trust_abilities([g EXCEPT !.players[player].evolution_points = @ + 2,
                              !.players[target].evolution_points = @ + 1],
                    player, target)

\* the payoff of a pair, Cooperate against Cooperate
cooperate_cooperate(g, player, target) ==
    LET pl == g.players[player]
        tg == g.players[target]
        \* both played Cooperate: a bond of either on the other gives the bonus
        symbiosis_bonus == pl.symbiosis_target = target \/ tg.symbiosis_target = player
        g1 == [g EXCEPT !.players[player].evolution_points = @ + 2,
                        !.players[target].evolution_points = @ + 2]
        g2 == IF symbiosis_bonus
              THEN draw_evolution(g1, IF pl.symbiosis_target = target THEN player ELSE target, 1)
              ELSE g1
    IN  trust_abilities(g2, player, target)

\* the forfeit of one Evolution card in the Deceive against Deceive branch
trust_forfeit(g, q) ==
    IF has_evolution_cards(g.players[q], 1) /\ ~has_ability(g.players[q], "tenacious_vitality")
    THEN [g EXCEPT !.players[q] = remove_card(g.players[q], "EVOLUTION", 1).player]
    ELSE g

\* the payoff of one pair
trust_payoff(g, player, target) ==
    LET player_action == g.trust.actions[player]
        target_action == g.trust.actions[target]
    IN  IF player_action = "COOPERATE" /\ target_action = "COOPERATE"
        THEN cooperate_cooperate(g, player, target)
        ELSE IF player_action = "COOPERATE" /\ target_action = "DECEIVE"
        THEN trust_abilities(
                 draw_evolution([g EXCEPT !.players[player].evolution_points = @ + 1], target, 3),
                 player, target)
        ELSE IF player_action = "DECEIVE" /\ target_action = "COOPERATE"
        THEN trust_abilities(
                 [draw_evolution(g, player, 3) EXCEPT !.players[target].evolution_points = @ + 1],
                 player, target)
        ELSE {trust_forfeit(trust_forfeit(g, player), target)}

\* the settlement loop, its body for the item <<player, target>> of targets
trust_settle(g, item) ==
    LET player == item[1]
        target == item[2]
        processed_pairs == {{x.player, x.target} : x \in Range(g.trust.settled)}
    IN  IF g.trust.actions[player] = "None" \/ g.trust.actions[target] = "None" THEN {g}
        ELSE IF {player, target} \in processed_pairs THEN {g}
        ELSE {[h EXCEPT !.trust.settled =
                   Append(@, [player |-> player, target |-> target,
                              before |-> snapshot(g), after |-> snapshot(h)])] :
                 h \in trust_payoff(g, player, target)}

\* EvolutionGame.resolve_trust_evolution
resolve_trust_evolution(g, current_player) ==
    LET start == [g EXCEPT !.trust = [NoTrust EXCEPT !.before = snapshot(g)]]
        chosen == ForEach({start}, PlayerList,
                          LAMBDA s, q : trust_choose_target(s, current_player, q))
        played == Bind(chosen, LAMBDA s : ForEach({s}, PlayerList, trust_play_card))
        settled == Bind(played, LAMBDA s : ForEach({s}, s.trust.targets, trust_settle))
    IN  Bind(settled, LAMBDA s : replenish_strategy_cards(s, active_list(s), "None"))

(***************************************************************************)
(* EvolutionGame.resolve_hawk_dove                                         *)
(***************************************************************************)
\* player.remove_card(kind, count) as a statement
remove(g, p, kind, count) == [g EXCEPT !.players[p] = remove_card(g.players[p], kind, count).player]

\* the card a player of a tile event plays: the results [g, action], action
\* "None" for a player without strategy cards
choose_action(g, p) ==
    LET pl == g.players[p]
    IN  IF pl.hand["COOPERATION"] > 0 /\ pl.hand["DECEPTION"] > 0
        THEN UNION {{[g |-> x.g, action |-> IF x.ret # "None" THEN x.ret ELSE c] :
                        x \in apply_ability_effects(g, p, c, "before_reveal", NoPlayer, c)} :
                    c \in {"COOPERATE", "DECEIVE"}}
        ELSE IF pl.hand["COOPERATION"] > 0 THEN {[g |-> g, action |-> "COOPERATE"]}
        ELSE IF pl.hand["DECEPTION"] > 0 THEN {[g |-> g, action |-> "DECEIVE"]}
        ELSE {[g |-> g, action |-> "None"]}

\* the forfeit of the hawk against hawk branch
hawk_forfeit(g, q) ==
    IF has_evolution_cards(g.players[q], 2)
    THEN remove(g, q, "EVOLUTION", IF has_ability(g.players[q], "tenacious_vitality") THEN 1 ELSE 2)
    ELSE g

\* hawk_payoff with two cards for the hawk
hawk_payoff_two_cards(g, current_player, opponent, current_action, opponent_action) ==
    LET g1 == remove(remove(g, current_player, kind_of(current_action), 1),
                     opponent, kind_of(opponent_action), 1)
    IN  IF current_action = "COOPERATE" /\ opponent_action = "COOPERATE"
        THEN [g1 EXCEPT !.players[current_player].evolution_points = @ + 2,
                        !.players[opponent].evolution_points = @ + 2]
        ELSE IF current_action = "DECEIVE" /\ opponent_action = "COOPERATE"
        THEN [draw_evolution(g1, current_player, 2)
                 EXCEPT !.players[opponent].evolution_points = @ + 1]
        ELSE IF current_action = "COOPERATE" /\ opponent_action = "DECEIVE"
        THEN [draw_evolution(g1, opponent, 2)
                 EXCEPT !.players[current_player].evolution_points = @ + 1]
        ELSE hawk_forfeit(hawk_forfeit(g1, current_player), opponent)

\* resolve_hawk_dove, 使用一张牌 and 结算效果
hawk_payoff(g, current_player, opponent, current_action, opponent_action) ==
    LET g1 == remove(remove(g, current_player, kind_of(current_action), 1),
                     opponent, kind_of(opponent_action), 1)
    IN  IF current_action = "COOPERATE" /\ opponent_action = "COOPERATE"
        THEN [g1 EXCEPT !.players[current_player].evolution_points = @ + 2,
                        !.players[opponent].evolution_points = @ + 2]
        ELSE IF current_action = "DECEIVE" /\ opponent_action = "COOPERATE"
        THEN [draw_evolution(g1, current_player, 3)
                 EXCEPT !.players[opponent].evolution_points = @ + 1]
        ELSE IF current_action = "COOPERATE" /\ opponent_action = "DECEIVE"
        THEN [draw_evolution(g1, opponent, 3)
                 EXCEPT !.players[current_player].evolution_points = @ + 1]
        ELSE hawk_forfeit(hawk_forfeit(g1, current_player), opponent)

\* resolve_hawk_dove, 捕食本能效果 and the replenishment of the played cards
hawk_finish(g, current_player, opponent, current_action, opponent_action) ==
    LET a1 == ability_effects(g, current_player, current_action, "hawk_dove", opponent)
        a2 == Bind(a1, LAMBDA h : ability_effects(h, opponent, opponent_action, "hawk_dove",
                                                  current_player))
        r1 == Bind(a2, LAMBDA h : replenish_strategy_cards(h, <<current_player>>, current_action))
    IN  Bind(r1, LAMBDA h : replenish_strategy_cards(h, <<opponent>>, opponent_action))

\* resolve_hawk_dove from "使用一张牌" on
hawk_dove_settle(g, current_player, opponent, current_action, opponent_action) ==
    hawk_finish(hawk_payoff(g, current_player, opponent, current_action, opponent_action),
                current_player, opponent, current_action, opponent_action)

\* resolve_hawk_dove, 停战协议: both get the payoff of dove against dove
hawk_truce(g, current_player, opponent) ==
    replenish_strategy_cards(
        [g EXCEPT !.players[current_player].evolution_points = @ + 2,
                  !.players[opponent].evolution_points = @ + 2],
        <<current_player, opponent>>, "COOPERATE")

\* resolve_hawk_dove, 双方秘密出牌: the results [g, current_action,
\* opponent_action], both "None" when one of the two holds no strategy card
hawk_actions(g, current_player, opponent) ==
    LET cur == g.players[current_player]
        forced == [g EXCEPT !.players[current_player].forced_deceive = FALSE]
        currents == IF cur.forced_deceive THEN {[g |-> forced, action |-> "DECEIVE"]}
                    ELSE choose_action(g, current_player)
        none(h) == [g |-> h, current_action |-> "None", opponent_action |-> "None"]
    IN  UNION {IF c.action = "None" THEN {none(c.g)}
               ELSE {IF o.action = "None" THEN none(o.g)
                     ELSE [g |-> o.g, current_action |-> c.action, opponent_action |-> o.action] :
                        o \in choose_action(c.g, opponent)} :
               c \in currents}

\* resolve_hawk_dove from the 停战协议 test on
hawk_dove_with(g, current_player, opponent) ==
    IF has_ability(g.players[current_player], "truce") \/ has_ability(g.players[opponent], "truce")
    THEN hawk_truce(g, current_player, opponent)
    ELSE UNION {IF x.current_action = "None" THEN {x.g}
                ELSE hawk_dove_settle(x.g, current_player, opponent,
                                      x.current_action, x.opponent_action) :
                x \in hawk_actions(g, current_player, opponent)}

\* resolve_hawk_dove, the opponent: the results [g, opponent], opponent
\* NoPlayer when there is nobody to challenge
hawk_opponents(g, current_player) ==
    LET cur == g.players[current_player]
    IN  IF cur.free_challenge_target # NoPlayer
        THEN {[g |-> [g EXCEPT !.players[current_player].free_challenge_target = NoPlayer],
               opponent |-> cur.free_challenge_target]}
        ELSE IF cur.forced_hawk_dove_target # NoPlayer
        THEN {[g |-> [g EXCEPT !.players[current_player].forced_hawk_dove_target = NoPlayer],
               opponent |-> cur.forced_hawk_dove_target]}
        ELSE IF others(g, current_player) = {} THEN {[g |-> g, opponent |-> NoPlayer]}
        ELSE {[g |-> g, opponent |-> opponent] : opponent \in others(g, current_player)}

\* EvolutionGame.resolve_hawk_dove
resolve_hawk_dove(g, current_player) ==
    UNION {IF x.opponent = NoPlayer THEN {x.g}
           ELSE hawk_dove_with(x.g, current_player, x.opponent) :
           x \in hawk_opponents(g, current_player)}

(***************************************************************************)
(* EvolutionGame.resolve_resource_rich / resolve_natural_disaster          *)
(***************************************************************************)
\* any(p.climate_change_active for p in self.players)
climate_change(g) == \E q \in Players : g.players[q].climate_change_active

\* the first player holding 资源控制, None without one
resource_control_player(g) ==
    LET holders == {q \in Players : has_ability(g.players[q], "resource_control")}
    IN  IF holders = {} THEN NoPlayer ELSE CHOOSE q \in holders : \A r \in holders : q <= r

\* 能量吸收: every other player with the effect draws one Evolution card
energy_absorption(g, player) ==
    LET f[i \in 0 .. NumPlayers] ==
            IF i = 0 THEN g
            ELSE IF i - 1 # player /\ f[i - 1].players[i - 1].energy_absorption_active
                 THEN draw_evolution(f[i - 1], i - 1, 1)
                 ELSE f[i - 1]
    IN  f[NumPlayers]

\* resolve_resource_rich, a player who plays Cooperate
resource_rich_cooperate(g, player) ==
    LET g1 == remove(g, player, "COOPERATION", 1)
        cards_to_draw == 2 + (IF g.climate_pleasant_active THEN 1 ELSE 0)
                           + (IF resource_control_player(g) = player THEN 1 ELSE 0)
        g2 == energy_absorption(draw_evolution(g1, player, cards_to_draw), player)
    IN  IF g2.players[player].population_boom_active
        THEN [draw_evolution(g2, player, 3) EXCEPT !.players[player].population_boom_active = FALSE]
        ELSE g2

\* resolve_resource_rich, a player who plays Deceive and rolls dice_roll
resource_rich_deceive(g, player, dice_roll) ==
    LET g1 == remove(g, player, "DECEPTION", 1)
        pl == g1.players[player]
        boosted == IF has_ability(pl, "efficient_metabolism") /\ dice_roll >= 5 THEN 5 ELSE 4
        cards_to_draw == IF resource_control_player(g) \notin {NoPlayer, player}
                         THEN boosted \div 2 ELSE boosted
        g2 == IF g1.environment_deterioration_active
              THEN IF pl.hand["COOPERATION"] > 0 THEN remove(g1, player, "COOPERATION", 1)
                   ELSE IF pl.hand["DECEPTION"] > 0 THEN remove(g1, player, "DECEPTION", 1)
                   ELSE g1
              ELSE g1
    IN  IF dice_roll >= 5 THEN draw_evolution(g2, player, cards_to_draw) ELSE g2

\* resolve_resource_rich, the body of the loop for one player
resource_rich_player(g, player) ==
    IF g.players[player].is_eliminated THEN {g}
    ELSE UNION {IF c.action = "None" THEN {c.g}
                ELSE IF c.action = "COOPERATE" THEN {resource_rich_cooperate(c.g, player)}
                ELSE {resource_rich_deceive(c.g, player, dice_roll) : dice_roll \in 1 .. 6} :
                c \in choose_action(g, player)}

\* resolve_natural_disaster, a player who plays Deceive
natural_disaster_deceive(g, player) ==
    LET g1 == remove(g, player, "DECEPTION", 1)
        pl == g1.players[player]
        hit(h, q) == IF has_evolution_cards(h.players[q], 1)
                     THEN remove(h, q, "EVOLUTION", 1) ELSE h
        g2 == hit(g1, player)
        after_expert ==
            IF has_ability(pl, "environment_adaptation") \/ pl.immune_to_disaster THEN {g1}
            ELSE IF has_ability(pl, "disaster_expert") /\ others(g2, player) # {}
                 THEN {hit(g2, target) : target \in others(g2, player)}
                 ELSE {g2}
    IN  UNION {{h} \cup {hit(h, target) : target \in others(h, player)} : h \in after_expert}

\* resolve_natural_disaster, the body of the loop for one player
natural_disaster_player(g, player) ==
    IF g.players[player].is_eliminated THEN {g}
    ELSE UNION {IF c.action = "None" THEN {c.g}
                ELSE IF c.action = "COOPERATE"
                THEN LET g1 == remove(c.g, player, "COOPERATION", 1)
                     IN  {IF has_ability(g1.players[player], "population_resilience")
                          THEN draw_evolution(g1, player, 1) ELSE g1}
                ELSE natural_disaster_deceive(c.g, player) :
                c \in choose_action(g, player)}

\* EvolutionGame.resolve_resource_rich and resolve_natural_disaster; frames is
\* the number of resolver calls on the stack
RECURSIVE resolve_resource_rich(_, _, _)
RECURSIVE resolve_natural_disaster(_, _, _)
resolve_resource_rich(g, current_player, frames) ==
    IF frames > RecursionLimit THEN {[g EXCEPT !.raised = "RecursionError"]}
    ELSE IF climate_change(g) THEN resolve_natural_disaster(g, current_player, frames + 1)
    ELSE ForEach({g}, PlayerList, resource_rich_player)

resolve_natural_disaster(g, current_player, frames) ==
    IF frames > RecursionLimit THEN {[g EXCEPT !.raised = "RecursionError"]}
    ELSE IF climate_change(g) THEN resolve_resource_rich(g, current_player, frames + 1)
    ELSE ForEach({g}, PlayerList, natural_disaster_player)

(***************************************************************************)
(* EvolutionGame.resolve_cooperation_sanctuary / resolve_deception_swamp   *)
(***************************************************************************)
\* the first loop of both resolvers: every player still in the game plays a
\* card; the results [g, actions], actions[p] = "None" for p not in the dict
play_cards(g) ==
    LET none == Table([q \in Players |-> "None"])
        step(x, q) ==
            IF x.g.players[q].is_eliminated THEN {x}
            ELSE {IF c.action = "None" THEN [g |-> c.g, actions |-> x.actions]
                  ELSE [g |-> remove(c.g, q, kind_of(c.action), 1),
                        actions |-> [x.actions EXCEPT ![q] = c.action]] :
                  c \in choose_action(x.g, q)}
        f[i \in 0 .. NumPlayers] ==
            IF i = 0 THEN {[g |-> g, actions |-> none]}
            ELSE UNION {step(x, i - 1) : x \in f[i - 1]}
    IN  f[NumPlayers]

\* the card a symbiosis bond between player and partner deals
symbiosis_card(g, player, partner) ==
    IF g.players[player].symbiosis_target = partner
    THEN draw_evolution(g, player, 1)
    ELSE IF g.players[partner].symbiosis_target = player
         THEN draw_evolution(g, partner, 1)
         ELSE g

\* resolve_cooperation_sanctuary, the settlement of one player
sanctuary_settle(g, player, actions) ==
    LET cooperation_players == {q \in Players : actions[q] = "COOPERATE"}
        next_player_index == (player + 1) % NumPlayers
        deceived == draw_evolution(g, player, 4)
    IN  IF actions[player] = "None" THEN {g}
        ELSE IF actions[player] = "COOPERATE"
        THEN IF Cardinality(cooperation_players) > 1
             THEN {symbiosis_card(draw_evolution(draw_evolution(g, player, 3), partner, 3),
                                  player, partner) :
                      partner \in cooperation_players \ {player}}
             ELSE {g}
        ELSE {IF ~deceived.players[next_player_index].is_eliminated
              THEN [deceived EXCEPT !.players[next_player_index].free_challenge_target = player]
              ELSE deceived}

\* EvolutionGame.resolve_cooperation_sanctuary
resolve_cooperation_sanctuary(g, current_player) ==
    UNION {ForEach({x.g}, PlayerList, LAMBDA h, q : sanctuary_settle(h, q, x.actions)) :
              x \in play_cards(g)}

\* chosen_card = random.choice(top_cards); player.add_card(chosen_card);
\* self.ability_deck.cards.remove(chosen_card), top_cards the top three cards
\* of the ability deck or the first two of them
take_ability(g, player, top_cards) ==
    {[g EXCEPT !.ability_deck.cards = @ \ {card},
               !.players[player] = add_ability(g.players[player], card)] : card \in top_cards}

\* 趁火打劫, the body of the loop for one other player
opportunist_step(g, player, other_player) ==
    LET other == g.players[other_player]
        paid == IF other.hand["COOPERATION"] > 0 THEN remove(g, other_player, "COOPERATION", 1)
                ELSE remove(g, other_player, "DECEPTION", 1)
    IN  IF other_player # player /\ has_ability(other, "opportunist")
        THEN {g} \cup (IF StrategyCount(other) > 0
                       THEN IF paid.ability_deck.cards # {}
                            THEN take_ability(paid, other_player, paid.ability_deck.cards)
                            ELSE {paid}
                       ELSE {})
        ELSE {g}

\* resolve_deception_swamp, a Deceive player whose peek no 防御机制 stopped
swamp_peek(g, player) ==
    LET taken == IF g.ability_deck.cards # {}
                 THEN take_ability(g, player, g.ability_deck.cards) ELSE {g}
    IN  Bind(taken, LAMBDA h : ForEach({h}, PlayerList,
                                       LAMBDA k, q : opportunist_step(k, player, q)))

\* 防御机制: the holder looks at the top cards instead, and takes one of the
\* first two of the three when there are two
swamp_defense(g, other_player) ==
    IF Cardinality(g.ability_deck.cards) >= 2
    THEN take_ability(g, other_player, g.ability_deck.cards)
    ELSE {g}

\* resolve_deception_swamp, the settlement of one player
swamp_settle(g, player, actions) ==
    LET deception_players == {q \in Players : actions[q] = "DECEIVE"}
        defenders == {q \in Players : q # player /\ has_ability(g.players[q], "defense_mechanism")}
    IN  IF actions[player] = "None" THEN {g}
        ELSE IF actions[player] = "DECEIVE"
        THEN IF ~named_is_empty(g.ability_deck)
             THEN swamp_peek(g, player)
                  \cup UNION {swamp_defense(g, other_player) : other_player \in defenders}
             ELSE {g}
        ELSE IF deception_players # {} THEN {draw_evolution(g, player, 1)} ELSE {g}

\* EvolutionGame.resolve_deception_swamp
resolve_deception_swamp(g, current_player) ==
    UNION {ForEach({x.g}, PlayerList, LAMBDA h, q : swamp_settle(h, q, x.actions)) :
              x \in play_cards(g)}

(***************************************************************************)
(* EvolutionGame.resolve_evolution_lab / resolve_finish                    *)
(***************************************************************************)
\* resolve_evolution_lab, the ability card drawn
lab_gain(g, current_player, card) ==
    LET g1 == [g EXCEPT !.players[current_player] = add_ability(g.players[current_player], card)]
    IN  IF card = "evolution_burst"
        THEN [draw_evolution(g1, current_player, 3)
                 EXCEPT !.players[current_player].abilities = @ \ {card}]
        ELSE IF card = "evolution_advantage"
        THEN [g1 EXCEPT !.players[current_player].evolution_requirement_reduction = 2]
        ELSE g1

\* EvolutionGame.resolve_evolution_lab
resolve_evolution_lab(g, current_player) ==
    LET paid == remove(g, current_player, "EVOLUTION", 2)
    IN  IF has_evolution_cards(g.players[current_player], 2)
        THEN IF ~named_is_empty(paid.ability_deck)
             THEN {lab_gain([paid EXCEPT !.ability_deck = r.deck], current_player, r.card) :
                      r \in named_draw(paid.ability_deck)}
             ELSE {paid}
        ELSE {g}

\* EvolutionGame.resolve_finish
resolve_finish(g, current_player) ==
    IF ~g.players[current_player].visited_finish
    THEN {[draw_evolution(g, current_player, 3)
              EXCEPT !.players[current_player].evolution_points = @ + 2,
                     !.players[current_player].visited_finish = TRUE]}
    ELSE {g}

(***************************************************************************)
(* EvolutionGame.resolve_mutation_event                                    *)
(***************************************************************************)
\* if q.has_evolution_cards(1): q.remove_card(CardType.EVOLUTION, 1)
forfeit_one(g, q) ==
    IF has_evolution_cards(g.players[q], 1) THEN remove(g, q, "EVOLUTION", 1) ELSE g

\* 自然选择
natural_selection(g) ==
    LET active == {q \in Players : ~g.players[q].is_eliminated}
        count(q) == get_evolution_card_count(g.players[q])
        min_players == {q \in active : \A r \in active : count(q) <= count(r)}
        f[i \in 0 .. NumPlayers] ==
            IF i = 0 THEN g
            ELSE IF (i - 1) \in min_players THEN forfeit_one(f[i - 1], i - 1) ELSE f[i - 1]
    IN  IF Cardinality(min_players) = 1
        THEN LET q == CHOOSE q \in min_players : TRUE
             IN  IF has_evolution_cards(g.players[q], 2) THEN remove(g, q, "EVOLUTION", 2) ELSE g
        ELSE f[NumPlayers]

\* 生态崩溃, the body of the loop for one player
ecological_collapse_player(g, q) ==
    LET pl == g.players[q]
        c == IF pl.hand["COOPERATION"] > 0 THEN 1 ELSE 0
        d == IF pl.hand["DECEPTION"] > 0 THEN 1 ELSE 0
        needed == 2 - (c + d)
        g1 == [g EXCEPT !.players[q].hand["COOPERATION"] = @ - c,
                        !.players[q].hand["DECEPTION"] = @ - d]
    IN  IF pl.is_eliminated THEN g
        ELSE IF c + d < 2
        THEN IF pl.hand["EVENT"] > 0
             THEN remove(g1, q, "EVENT", Min(needed, pl.hand["EVENT"]))
             ELSE IF get_evolution_card_count(pl) > 0
                  THEN remove(g1, q, "EVOLUTION", Min(needed, get_evolution_card_count(pl)))
                  ELSE g1
        ELSE g1

\* 疾病传播, the body of the loop for one player
disease_spread_player(g, q) ==
    LET start_pos == g.players[q].position
        step(S, n) ==
            IF get_grid(g.board, start_pos + n) = "NATURAL_DISASTER"
            THEN S \cup {forfeit_one(s, q) : s \in S} ELSE S
        walked == step(step(step(step({g}, 1), 2), 3), 4)
    IN  IF g.players[q].is_eliminated THEN {g}
        ELSE {[s EXCEPT !.players[q].position = (start_pos + 4) % GridCount] : s \in walked}

\* 三方博弈
three_way_game(g, current_player) ==
    LET available_players == others(g, current_player)
        bout(s, q) == {s, draw_evolution(s, q, 1)}
    IN  IF Cardinality(available_players) >= 2
        THEN UNION {ForEach({g}, <<current_player, current_player, t1, t1, t2, t2>>, bout) :
                       <<t1, t2>> \in {x \in available_players \X available_players : x[1] # x[2]}}
        ELSE {g}

\* 位置混乱
position_chaos(g, current_player) ==
    LET here == g.players[current_player].position
        gap(q) == IF g.players[q].position >= here
                  THEN g.players[q].position - here ELSE here - g.players[q].position
        distance(q) == Min(gap(q), GridCount - gap(q))
        before(a, b) == distance(a) < distance(b) \/ (distance(a) = distance(b) /\ a < b)
        cand == others(g, current_player)
        player1 == CHOOSE a \in cand : \A b \in cand \ {a} : before(a, b)
        player2 == CHOOSE a \in cand \ {player1} : \A b \in cand \ {player1, a} : before(a, b)
    IN  IF Cardinality(cand) >= 2
        THEN [g EXCEPT !.players[player1].position = g.players[player2].position,
                       !.players[player2].position = g.players[player1].position]
        ELSE g

\* 竞争激化
intensified_competition(g) ==
    LET active == {q \in Players : ~g.players[q].is_eliminated}
        count(q) == g.players[q].hand["DECEPTION"]
        max_players == {q \in active : \A r \in active : count(q) >= count(r)}
    IN  {draw_evolution([g EXCEPT !.players[target].hand["DECEPTION"] = 0], target, count(target)) :
            target \in max_players}

\* the events whose effect calls no resolver
event_effect(g, current_player, event_card) ==
    LET cp == current_player
        targets == others(g, cp)
        active(q) == ~g.players[q].is_eliminated
    IN  CASE event_card = "gene_mutation" ->
                 {[draw_evolution(g, cp, 3) EXCEPT !.players[cp].cannot_move_next_turn = TRUE]}
          [] event_card = "predator_appears" ->
                 {[g EXCEPT !.players[target].forced_hawk_dove_target = cp,
                            !.players[target].forced_deceive = TRUE] : target \in targets}
                 \cup (IF targets = {} THEN {g} ELSE {})
          [] event_card = "mutualism" ->
                 {draw_evolution(draw_evolution(g, cp, 2), target, 2) : target \in targets}
                 \cup (IF targets = {} THEN {g} ELSE {})
          [] event_card = "natural_selection" -> {natural_selection(g)}
          [] event_card = "ecological_collapse" ->
                 ForEach({g}, PlayerList, LAMBDA s, q : {ecological_collapse_player(s, q)})
          [] event_card = "predation" ->
                 LET g1 == draw_evolution(g, cp, 1)
                 IN  {forfeit_one(g1, target) : target \in targets}
                     \cup (IF targets = {} THEN {g1} ELSE {})
          [] event_card = "environmental_tolerance" ->
                 {[g EXCEPT !.players[cp].immune_to_disaster = TRUE]}
          [] event_card = "population_boom" ->
                 {[g EXCEPT !.players[cp].population_boom_active = TRUE]}
          [] event_card = "disease_spread" -> ForEach({g}, PlayerList, disease_spread_player)
          [] event_card = "order_reversal" ->
                 {[g EXCEPT !.turn_order_clockwise = ~g.turn_order_clockwise]}
          [] event_card = "energy_absorption" ->
                 {[g EXCEPT !.players[cp].energy_absorption_active = TRUE,
                            !.players[cp].energy_absorption_rounds = 3]}
          [] event_card = "territory_dispute" ->
                 ForEach({g}, PlayerList,
                         LAMBDA s, q : {IF q # cp /\ active(q)
                                           /\ s.players[q].position = s.players[cp].position
                                        THEN forfeit_one(s, q) ELSE s})
          [] event_card = "climate_upheaval" ->
                 {[g EXCEPT !.players[cp].climate_change_active = TRUE,
                            !.players[cp].climate_change_rounds = 2]}
          [] event_card = "movement_suppression" ->
                 {[g EXCEPT !.players = Table([q \in Players |->
                        IF q # cp /\ active(q) THEN [g.players[q] EXCEPT !.cannot_move_next_turn = TRUE]
                        ELSE g.players[q]])]}
          [] event_card = "resource_scarcity" ->
                 {[g EXCEPT !.players = Table([q \in Players |->
                        IF active(q) THEN [g.players[q] EXCEPT !.hand["EVOLUTION"] = @ - (@ \div 2)]
                        ELSE g.players[q]])]}
          [] event_card = "three_way_game" -> three_way_game(g, cp)
          [] event_card = "truce" -> {[g EXCEPT !.players[cp] = add_ability(g.players[cp], "truce")]}
          [] event_card = "position_chaos" -> {position_chaos(g, cp)}
          [] event_card = "foresight" -> {draw_evolution(g, cp, 2)}
          [] event_card = "intensified_competition" -> intensified_competition(g)
          [] event_card = "trust_deficit" ->
                 {[g EXCEPT !.players = Table([q \in Players |->
                        IF active(q) THEN [g.players[q] EXCEPT !.hand["COOPERATION"] = 0]
                        ELSE g.players[q]])]}
          [] event_card = "evolution_acceleration" ->
                 {[g EXCEPT !.players[cp].hand_limit_bonus = @ + 3]}
          [] event_card = "miracle" ->
                 {[draw_evolution(g, cp, 5) EXCEPT !.players[cp].cannot_move_next_turn = FALSE,
                                                  !.players[cp].rich_land_active = TRUE]}
          [] OTHER -> {g}      \* 欺诈狂欢 and 合作浪潮 only log

\* move_player clearing the flag and moving all the same
move_player_through_the_flag(g, player, steps) ==
    [g |-> [g EXCEPT !.players[player].cannot_move_next_turn = FALSE,
                     !.players[player].position = (@ + steps) % GridCount],
     ret |-> steps]

\* EvolutionGame.move_player: [g, ret]
move_player(g, player, steps) ==
    IF g.players[player].cannot_move_next_turn
    THEN [g |-> [g EXCEPT !.players[player].cannot_move_next_turn = FALSE], ret |-> 0]
    ELSE [g |-> [g EXCEPT !.players[player].position = (@ + steps) % GridCount], ret |-> steps]

\* EvolutionGame.resolve_grid_effect and resolve_mutation_event
RECURSIVE resolve_grid_effect(_, _, _)
RECURSIVE resolve_mutation_event(_, _)
resolve_grid_effect(g, player, grid_type) ==
    CASE grid_type = "TRUST_EVOLUTION" -> resolve_trust_evolution(g, player)
      [] grid_type = "HAWK_DOVE" -> resolve_hawk_dove(g, player)
      [] grid_type = "RESOURCE_RICH" -> resolve_resource_rich(g, player, 1)
      [] grid_type = "NATURAL_DISASTER" -> resolve_natural_disaster(g, player, 1)
      [] grid_type = "COOPERATION_SANCTUARY" -> resolve_cooperation_sanctuary(g, player)
      [] grid_type = "DECEPTION_SWAMP" -> resolve_deception_swamp(g, player)
      [] grid_type = "MUTATION_EVENT" -> resolve_mutation_event(g, player)
      [] grid_type = "EVOLUTION_LAB" -> resolve_evolution_lab(g, player)
      [] grid_type = "FINISH" -> resolve_finish(g, player)
      [] OTHER -> {g}

\* the events whose effect resolves a tile
event_resolving(g, current_player, event_card) ==
    LET cp == current_player
        here(s) == get_grid(s.board, s.players[cp].position)
    IN  CASE event_card = "mass_migration" ->
                 LET current_grid_type == here(g)
                     migrate(s, q) ==
                         LET next_position ==
                                 find_grid_by_type(s.board, current_grid_type, s.players[q].position + 1)
                         IN  IF s.players[q].is_eliminated \/ next_position = -1 THEN {s}
                             ELSE resolve_grid_effect(
                                      [s EXCEPT !.players[q].position = next_position],
                                      q, get_grid(s.board, next_position))
                 IN  ForEach({g}, PlayerList, migrate)
          [] event_card = "accelerated_evolution" ->
                 LET m == move_player(draw_evolution(g, cp, 2), cp, 2)
                 IN  IF m.ret > 0 THEN resolve_grid_effect(m.g, cp, here(m.g)) ELSE {m.g}
          [] event_card = "rich_land" ->
                 resolve_grid_effect([g EXCEPT !.players[cp].rich_land_active = TRUE], cp, here(g))
          [] event_card = "effect_copy" ->
                 \* resolve_mutation_event_specific draws the next card of the deck
                 Bind(resolve_mutation_event(g, cp),
                      LAMBDA s : {[s EXCEPT !.last_event_card = event_card]})
          [] event_card = "space_jump" ->
                 LET finish_pos == find_grid_by_type(g.board, "FINISH", 0)
                     at(pos) == [g EXCEPT !.players[cp].position = pos]
                 IN  resolve_grid_effect(at(0), cp, get_grid(g.board, 0))
                     \cup (IF finish_pos # -1
                           THEN resolve_grid_effect(at(finish_pos), cp, "FINISH") ELSE {g})

resolve_mutation_event(g, current_player) ==
    IF named_is_empty(g.event_deck) THEN {g}
    ELSE UNION {LET g1 == [g EXCEPT !.event_deck = r.deck, !.last_event_card = r.card]
                IN  IF r.card \in {"mass_migration", "accelerated_evolution", "rich_land",
                                   "effect_copy", "space_jump"}
                    THEN event_resolving(g1, current_player, r.card)
                    ELSE event_effect(g1, current_player, r.card) :
                r \in named_draw(g.event_deck)}

(***************************************************************************)
(* EvolutionGame: the steps of a turn                                      *)
(***************************************************************************)
\* next_player with the elimination test of its loop left out
next_player_unskipping(g) ==
    IF active_list(g) = <<>> THEN [g EXCEPT !.game_over = TRUE]
    ELSE [g EXCEPT !.current_player_index =
                       IF g.turn_order_clockwise THEN (@ + 1) % NumPlayers
                       ELSE (@ - 1) % NumPlayers]

\* EvolutionGame.next_player
next_player(g) ==
    LET original_index == g.current_player_index
        step(i) == IF g.turn_order_clockwise THEN (i + 1) % NumPlayers
                   ELSE (i - 1) % NumPlayers
        walk[attempts \in 0 .. NumPlayers] ==
            IF attempts = 0 THEN [index |-> original_index, stop |-> FALSE, over |-> FALSE]
            ELSE LET w == walk[attempts - 1]
                     i == step(w.index)
                 IN  IF w.stop THEN w
                     ELSE IF ~g.players[i].is_eliminated
                          THEN [index |-> i, stop |-> TRUE, over |-> FALSE]
                          ELSE [index |-> i, stop |-> i = original_index, over |-> i = original_index]
    IN  IF active_list(g) = <<>> THEN [g EXCEPT !.game_over = TRUE]
        ELSE [g EXCEPT !.current_player_index = walk[NumPlayers].index,
                       !.game_over = @ \/ walk[NumPlayers].over]

\* optional_actions: 兑换进化点数
convert_points(g, cp) ==
    LET points == g.players[cp].evolution_points
        convert(points_to_convert) ==
            LET r == pile_draw(g.evolution_deck, points_to_convert)
            IN  IF r.drawn > 0
                THEN [g EXCEPT !.evolution_deck = r.deck,
                               !.players[cp].hand["EVOLUTION"] = @ + r.drawn,
                               !.players[cp].evolution_points = @ - points_to_convert]
                ELSE [g EXCEPT !.evolution_deck = r.deck]
    IN  IF points > 0 THEN {g} \cup {convert(k) : k \in 1 .. Min(3, points)} ELSE {g}

\* optional_actions: 使用事件卡, through resolve_mutation_event_specific
use_event_card(g, cp) ==
    LET temp_last == g.last_event_card
        g1 == [g EXCEPT !.players[cp].hand["EVENT"] = @ - 1]
    IN  IF g.players[cp].hand["EVENT"] > 0
        THEN {g} \cup Bind(resolve_mutation_event(g1, cp),
                           LAMBDA s : {[s EXCEPT !.last_event_card = temp_last]})
        ELSE {g}

\* optional_actions: 使用能力卡
use_ability(g, cp) ==
    LET targets == others(g, cp)
        fire(ability) ==
            IF ability = "symbiosis_bond"
            THEN IF targets = {} THEN {g}
                 ELSE UNION {ability_effects(g, cp, "None", "establish_symbiosis", target) :
                                target \in targets}
            ELSE IF ability = "predator_instinct"
            THEN IF targets = {} THEN {g}
                 ELSE {[g EXCEPT !.players[cp].prey_target = target] : target \in targets}
            ELSE {g}
    IN  {g} \cup UNION {fire(ability) : ability \in g.players[cp].abilities}

\* EvolutionGame.optional_actions
optional_actions(g, current_player) ==
    Bind(Bind(convert_points(g, current_player), LAMBDA s : use_event_card(s, current_player)),
         LAMBDA s : use_ability(s, current_player))

\* a strategy card of either deck, drawn with safe_draw_strategy_card
draw_either(g, p) ==
    safe_draw_strategy_card(g, "COOPERATE", p) \cup safe_draw_strategy_card(g, "DECEIVE", p)

\* EvolutionGame.ecological_investigation
ecological_investigation(g, current_player) ==
    LET cp == current_player
        pl == g.players[cp]
        c == IF pl.hand["COOPERATION"] > 0 THEN 1 ELSE 0
        d == IF pl.hand["DECEPTION"] > 0 THEN 1 ELSE 0
        g1 == [g EXCEPT !.players[cp].hand["COOPERATION"] = @ - c,
                        !.players[cp].hand["DECEPTION"] = @ - d]
        inspect(target) ==
            LET t == g1.players[target]
                excess == StrategyCount(t) - get_hand_limit(t)
            IN  IF excess > 0
                THEN UNION {Bind(Bind(draw_either([g1 EXCEPT !.players[target] = t2], cp),
                                      LAMBDA s : draw_either(s, cp)),
                                 LAMBDA s : draw_either(s, cp)) :
                               t2 \in discard_excess(t, excess)}
                ELSE {g1}
    IN  IF StrategyCount(pl) < 2 THEN {g}
        ELSE IF c + d < 2 \/ others(g1, cp) = {} THEN {g1}
        ELSE UNION {inspect(target) : target \in others(g1, cp)}

\* environment_change: 生态改造, the holder redraws one ordinary tile
eco_engineering(g) ==
    LET ordinary_grids == {i \in 1 .. (GridCount - 2) :
                              get_grid(g.board, i) \notin
                                  {"START", "FINISH", "EVOLUTION_LAB", "MUTATION_EVENT"}}
        available_types == GridTypes \ {"START", "FINISH", "EVOLUTION_LAB", "MUTATION_EVENT"}
    IN  IF ordinary_grids = {} THEN {g}
        ELSE {[g EXCEPT !.board = change_grid_type(g.board, grid_to_change, new_type)] :
                 grid_to_change \in ordinary_grids, new_type \in available_types}

\* environment_change: 圣地显现, the first tile farthest from the player
farthest_pos(position) ==
    LET gap(i) == IF i >= position THEN i - position ELSE position - i
        distance(i) == Min(gap(i), GridCount - gap(i))
    IN  CHOOSE i \in Positions :
            /\ \A j \in Positions : distance(j) <= distance(i)
            /\ \A j \in Positions : distance(j) = distance(i) => i <= j

\* environment_change: the effect of the card drawn
environment_effect(g, current_player, environment_card) ==
    LET position == g.players[current_player].position
        to(pos, grid_type) ==
            IF pos = -1 THEN g ELSE [g EXCEPT !.board = change_grid_type(g.board, pos, grid_type)]
    IN  CASE environment_card = "drought" ->
                 {to(find_nearest_grid_by_type(g.board, "RESOURCE_RICH", position), "NATURAL_DISASTER")}
          [] environment_card = "oasis" ->
                 {to(find_nearest_grid_by_type(g.board, "NATURAL_DISASTER", position), "RESOURCE_RICH")}
          [] environment_card = "earthquake" ->
                 {[g EXCEPT !.board = change_grid_type(
                                          change_grid_type(g.board, (position - 1) % GridCount, "NATURAL_DISASTER"),
                                          (position + 1) % GridCount, "NATURAL_DISASTER")]}
          [] environment_card = "ecological_recovery" ->
                 {to(find_grid_by_type(g.board, "NATURAL_DISASTER", 0), "TRUST_EVOLUTION")}
          [] environment_card = "path_change" ->
                 {to(pos, new_type) : pos \in 1 .. (GridCount - 2),
                                      new_type \in GridTypes \ {"START", "FINISH"}}
          [] environment_card = "pleasant_climate" -> {[g EXCEPT !.climate_pleasant_active = TRUE]}
          [] environment_card = "environmental_deterioration" ->
                 {[g EXCEPT !.environment_deterioration_active = TRUE,
                            !.environment_deterioration_rounds = 2]}
          [] environment_card = "terrain_uplift" ->
                 LET finish_pos == find_grid_by_type(g.board, "FINISH", 0)
                     new_finish_pos == (finish_pos + 3) % GridCount
                 IN  IF finish_pos = -1 THEN {g}
                     ELSE {[g EXCEPT !.board = change_grid_type(
                                change_grid_type(g.board, finish_pos, get_grid(g.board, new_finish_pos)),
                                new_finish_pos, "FINISH")]}
          [] environment_card = "swamp_expansion" ->
                 \* the two tiles are not neighbours unless eleven reshuffles in a
                 \* row put two neighbours first
                 LET ordinary_grids == {i \in 1 .. (GridCount - 2) :
                                           get_grid(g.board, i) \notin
                                               {"START", "FINISH", "DECEPTION_SWAMP"}}
                 IN  IF Cardinality(ordinary_grids) >= 2
                     THEN {[g EXCEPT !.board = change_grid_type(
                                change_grid_type(g.board, x[1], "DECEPTION_SWAMP"), x[2], "DECEPTION_SWAMP")] :
                              x \in {y \in ordinary_grids \X ordinary_grids : y[1] # y[2]}}
                     ELSE {g}
          [] environment_card = "sanctuary_appears" ->
                 {to(farthest_pos(position), "COOPERATION_SANCTUARY")}
          [] OTHER -> {g}

\* EvolutionGame.environment_change
environment_change(g, current_player) ==
    LET adapt(s) == ForEach({s}, PlayerList,
                            LAMBDA k, q : IF k.players[q].is_eliminated THEN {k}
                                          ELSE ability_effects(k, q, "None", "environment_change", NoPlayer))
        changed(r) ==
            LET g1 == [g EXCEPT !.environment_change_deck = r.deck]
            IN  environment_effect(g1, current_player, r.card)
                \cup (IF has_ability(g.players[current_player], "eco_engineering")
                      THEN eco_engineering(g1) ELSE {})
    IN  {g} \cup (IF named_is_empty(g.environment_change_deck) THEN {}
                  ELSE UNION {Bind(changed(r), adapt) : r \in named_draw(g.environment_change_deck)})

\* check_elimination looking at the current player only
check_elimination_current_only(g) ==
    LET cp == g.current_player_index
    IN  IF g.players[cp].is_eliminated THEN g
        ELSE [g EXCEPT !.players[cp] = is_eliminated_check(g.players[cp])]

\* EvolutionGame.check_elimination
check_elimination(g) ==
    [g EXCEPT !.players = Table([q \in Players |->
        IF g.players[q].is_eliminated THEN g.players[q] ELSE is_eliminated_check(g.players[q])])]

\* check_victory naming the current player the winner when nobody is left
check_victory_last_out_wins(g) ==
    LET victors == {q \in Players : ~g.players[q].is_eliminated /\ is_victorious(g.players[q])}
        active_players == active_list(g)
    IN  IF victors # {}
        THEN [g |-> [g EXCEPT !.game_over = TRUE,
                              !.winner = CHOOSE q \in victors : \A r \in victors : q <= r],
              ret |-> TRUE]
        ELSE IF Len(active_players) = 1
        THEN [g |-> [g EXCEPT !.game_over = TRUE, !.winner = active_players[1]], ret |-> TRUE]
        ELSE IF Len(active_players) = 0
        THEN [g |-> [g EXCEPT !.game_over = TRUE, !.winner = g.current_player_index], ret |-> TRUE]
        ELSE [g |-> g, ret |-> FALSE]

\* check_victory with the winner named and the game left open
check_victory_without_game_over(g) ==
    LET victors == {q \in Players : ~g.players[q].is_eliminated /\ is_victorious(g.players[q])}
        active_players == active_list(g)
    IN  IF victors # {}
        THEN [g |-> [g EXCEPT !.winner = CHOOSE q \in victors : \A r \in victors : q <= r],
              ret |-> TRUE]
        ELSE IF Len(active_players) = 1
        THEN [g |-> [g EXCEPT !.winner = active_players[1]], ret |-> TRUE]
        ELSE IF Len(active_players) = 0
        THEN [g |-> [g EXCEPT !.game_over = TRUE], ret |-> TRUE]
        ELSE [g |-> g, ret |-> FALSE]

\* check_victory ending the game without telling play_turn
check_victory_without_return(g) ==
    LET victors == {q \in Players : ~g.players[q].is_eliminated /\ is_victorious(g.players[q])}
        active_players == active_list(g)
    IN  IF victors # {}
        THEN [g |-> [g EXCEPT !.game_over = TRUE,
                              !.winner = CHOOSE q \in victors : \A r \in victors : q <= r],
              ret |-> FALSE]
        ELSE IF Len(active_players) = 1
        THEN [g |-> [g EXCEPT !.game_over = TRUE, !.winner = active_players[1]], ret |-> FALSE]
        ELSE IF Len(active_players) = 0
        THEN [g |-> [g EXCEPT !.game_over = TRUE], ret |-> FALSE]
        ELSE [g |-> g, ret |-> FALSE]

\* EvolutionGame.check_victory: [g, ret]
check_victory(g) ==
    LET victors == {q \in Players : ~g.players[q].is_eliminated /\ is_victorious(g.players[q])}
        active_players == active_list(g)
    IN  IF victors # {}
        THEN [g |-> [g EXCEPT !.game_over = TRUE,
                              !.winner = CHOOSE q \in victors : \A r \in victors : q <= r],
              ret |-> TRUE]
        ELSE IF Len(active_players) = 1
        THEN [g |-> [g EXCEPT !.game_over = TRUE, !.winner = active_players[1]], ret |-> TRUE]
        ELSE IF Len(active_players) = 0
        THEN [g |-> [g EXCEPT !.game_over = TRUE], ret |-> TRUE]
        ELSE [g |-> g, ret |-> FALSE]

\* EvolutionGame.update_global_effects
update_global_effects(g) ==
    LET g1 == IF g.environment_deterioration_active /\ g.environment_deterioration_rounds > 0
              THEN [g EXCEPT !.environment_deterioration_rounds = @ - 1,
                             !.environment_deterioration_active =
                                 (g.environment_deterioration_rounds - 1 # 0)]
              ELSE g
    IN  [g1 EXCEPT !.climate_pleasant_active = FALSE]

\* play_turn, from round_count += 1 to reset_turn_flags
begin_turn(g) ==
    LET g1 == [g EXCEPT !.round_count = @ + 1,
                        !.players = Table([q \in Players |->
                            IF g.players[q].is_eliminated THEN g.players[q]
                            ELSE update_continuous_effects(g.players[q])])]
        cp == g.current_player_index
    IN  [update_global_effects(g1) EXCEPT !.players[cp] = reset_turn_flags(g1.players[cp])]

\* play_turn, 掷骰与移动: [g, ret] with ret the steps moved.  战术升级 keeps the
\* larger of two rolls, a number of 1..6 again
roll_and_move(g) ==
    LET cp == g.current_player_index
        doubled == g.players[cp].rich_land_active
        g1 == [g EXCEPT !.players[cp].rich_land_active = FALSE]
    IN  {move_player(g1, cp, IF doubled THEN 2 * dice_roll ELSE dice_roll) : dice_roll \in 1 .. 6}

\* play_turn, 触发并结算格子事件: the tile landed on resolves, and once more
\* when the resolution left rich_land_active set
resolve_landing(g) ==
    LET cp == g.current_player_index
        new_grid == get_grid(g.board, g.players[cp].position)
        again(s) ==
            IF s.players[cp].rich_land_active
            THEN Bind(resolve_grid_effect(s, cp, new_grid),
                      LAMBDA k : {[k EXCEPT !.players[cp].rich_land_active = FALSE]})
            ELSE {s}
    IN  Bind(resolve_grid_effect(g, cp, new_grid), again)

(***************************************************************************)
(* DeckSpec: one Deck, driven by its callers' operations.                  *)
(***************************************************************************)
DeckIds == 1 .. DeckCards

\* the cards that left the deck (drawn and not yet discarded)
DeckOut == DeckIds \ (Range(deck.cards) \cup Range(deck.discard_pile))

\* the Deck under test plays no part in the specifications of the game
IdleDeck ==
    /\ deck = [cards |-> <<>>, discard_pile |-> <<>>]
    /\ drawn_cards = <<>>
    /\ deck_op = [op |-> "none", arg |-> 0, before |-> {}, cards |-> <<>>, discard_pile |-> <<>>,
                  raised |-> "none"]

\* the game object plays no part in DeckSpec
IdleGame ==
    /\ game = [raised |-> "none"]
    /\ pc = "idle"
    /\ loop_round = 0
    /\ last_call = [op |-> "none"]

\* Deck.initialize_with_cards: the minted cards, shuffled
DeckInit ==
    /\ deck \in {[cards |-> t, discard_pile |-> <<>>] :
                    t \in Shuffles([i \in DeckIds |-> i])}
    /\ drawn_cards = <<>>
    /\ deck_op = [op |-> "init", arg |-> 0, before |-> {}, cards |-> <<>>, discard_pile |-> <<>>,
                  raised |-> "none"]
    /\ IdleGame

DeckDraw ==
    \E count \in 0 .. MaxDraw :
        \E r \in draw(deck, count) :
            /\ deck' = r.deck
            /\ drawn_cards' = r.drawn_cards
            /\ deck_op' = [op |-> "draw", arg |-> count,
                           before |-> Range(deck.cards) \cup Range(deck.discard_pile),
                           cards |-> deck.cards, discard_pile |-> deck.discard_pile,
                           raised |-> r.raised]
            /\ UNCHANGED gameVars

DeckAddToDiscard ==
    \E card \in DeckOut :
        /\ deck' = add_to_discard(deck, card)
        /\ drawn_cards' = <<>>
        /\ deck_op' = [op |-> "add_to_discard", arg |-> card,
                       before |-> Range(deck.cards) \cup Range(deck.discard_pile),
                       cards |-> deck.cards, discard_pile |-> deck.discard_pile,
                       raised |-> "none"]
        /\ UNCHANGED gameVars

DeckPeekTop ==
    \E count \in 0 .. MaxDraw :
        /\ drawn_cards' = peek_top(deck, count)
        /\ deck_op' = [op |-> "peek_top", arg |-> count,
                       before |-> Range(deck.cards) \cup Range(deck.discard_pile),
                       cards |-> deck.cards, discard_pile |-> deck.discard_pile,
                       raised |-> "none"]
        /\ UNCHANGED <<deck, gameVars>>

DeckNext == DeckDraw \/ DeckAddToDiscard \/ DeckPeekTop

DeckSpec == DeckInit /\ [][DeckNext]_vars

\* C8: Deck.draw(n) never raises; on a deck holding k cards in its two piles
\* it returns exactly min(n, k) distinct cards, all of them cards that were in
\* the deck, and when k < n both piles are empty afterwards.
DrawReturnsMinOfRequestAndStock ==
    deck_op.op = "draw" =>
        LET n == deck_op.arg
            k == Cardinality(deck_op.before)
        IN  /\ deck_op.raised = "none"
            /\ Len(drawn_cards) = Min(n, k)
            /\ Cardinality(Range(drawn_cards)) = Len(drawn_cards)
            /\ Range(drawn_cards) \subseteq deck_op.before
            /\ Range(deck.cards) \cup Range(deck.discard_pile) = deck_op.before \ Range(drawn_cards)
            /\ (k < n => is_empty(deck))

\* a draw that asked for more than the two piles held, part of it from the
\* reshuffled discard pile
DrawUnderDelivered ==
    /\ deck_op.op = "draw"
    /\ 0 < Cardinality(deck_op.before)
    /\ Cardinality(deck_op.before) < deck_op.arg
    /\ Len(drawn_cards) = Cardinality(deck_op.before)
    /\ Cardinality(deck_op.before) < DeckCards

\* C18: in Deck.draw a reshuffle happens exactly when a card is needed while
\* the draw pile is empty and the discard pile is not.  Then the cards of the
\* discard pile become the draw pile (the same cards, none duplicated or
\* lost), the discard pile is empty and the draw goes on from the new draw
\* pile; otherwise the discard pile is left alone and the cards come off the
\* top of the draw pile.
ReshuffleExactlyWhenNeeded ==
    deck_op.op = "draw" =>
        LET n == deck_op.arg
            c == Len(deck_op.cards)
            p == Len(deck_op.discard_pile)
            from_pile == Min(n, c)
            rest == {drawn_cards[i] : i \in (c + 1) .. Len(drawn_cards)}
        IN  /\ Len(drawn_cards) >= from_pile
            /\ \A i \in 1 .. from_pile : drawn_cards[i] = deck_op.cards[c - i + 1]
            /\ IF n > c /\ p > 0
               THEN /\ deck.discard_pile = <<>>
                    /\ Len(drawn_cards) = c + Min(n - c, p)
                    /\ rest \cup Range(deck.cards) = Range(deck_op.discard_pile)
                    /\ rest \cap Range(deck.cards) = {}
                    /\ Cardinality(rest) + Len(deck.cards) = p
               ELSE /\ deck.discard_pile = deck_op.discard_pile
                    /\ deck.cards = SubSeq(deck_op.cards, 1, c - from_pile)
                    /\ Len(drawn_cards) = from_pile

\* a draw of two cards took the last card of the draw pile and one card of
\* the two that the reshuffle brought back from the discard pile
DrawAcrossReshuffle ==
    /\ deck_op.op = "draw" /\ deck_op.arg = 2
    /\ Len(deck_op.cards) = 1 /\ Len(deck_op.discard_pile) = 2
    /\ Len(drawn_cards) = 2 /\ Len(deck.cards) = 1 /\ deck.discard_pile = <<>>

\* C19: Deck.peek_top(n), for every n >= 0, leaves both piles unchanged,
\* never reshuffles, and returns exactly the min(n, |draw pile|) cards that
\* the next draws would take.
PeekTopReturnsNextDraws ==
    deck_op.op = "peek_top" =>
        LET n == deck_op.arg
            c == Len(deck.cards)
        IN  /\ deck.cards = deck_op.cards
            /\ deck.discard_pile = deck_op.discard_pile
            /\ Len(drawn_cards) = Min(n, c)
            /\ Range(drawn_cards) = {deck.cards[c - i + 1] : i \in 1 .. Min(n, c)}

(***************************************************************************)
(* HandSpec: the hands and the three decks of interchangeable cards under  *)
(* the card operations the resolvers make on them after the deal: a draw   *)
(* of an Evolution card, a replenishment of a strategy card, a forfeit,    *)
(* a permanent rise of the hand limit.                                     *)
(***************************************************************************)
HandInit ==
    /\ game \in InitialGames
    /\ pc = "hand"
    /\ loop_round = 0
    /\ last_call = [op |-> "initial_deal", player |-> NoPlayer, kind |-> "None"]
    /\ IdleDeck

\* cards = self.evolution_deck.draw(1); player.add_card(cards[0])
HandDrawEvolution ==
    \E p \in 0 .. (Min(HandPlayers, NumPlayers) - 1) :
        /\ game.evolution_deck.cards > EvolutionCards - 5 * NumPlayers - HandDraws
        /\ game' = draw_evolution(game, p, 1)
        /\ last_call' = [op |-> "add_card", player |-> p, kind |-> "EVOLUTION"]
        /\ UNCHANGED <<pc, loop_round, deckVars>>

\* safe_draw_strategy_card(deck, player, ...)
HandReplenish ==
    \E p \in 0 .. (Min(HandPlayers, NumPlayers) - 1), action_type \in {"COOPERATE", "DECEIVE"} :
        /\ game[deck_of(action_type)].cards > CooperationCards - NumPlayers - HandDraws
        /\ game' \in safe_draw_strategy_card(game, action_type, p)
        /\ last_call' = [op |-> "add_card", player |-> p, kind |-> kind_of(action_type)]
        /\ UNCHANGED <<pc, loop_round, deckVars>>

\* player.remove_card(kind, count), a card played or forfeited; the call may
\* ask for more cards than the hand holds
HandForfeit ==
    \E p \in 0 .. (Min(HandPlayers, NumPlayers) - 1), kind \in {"COOPERATION", "DECEPTION", "EVOLUTION"}, count \in 1 .. MaxForfeit :
        /\ game' = [game EXCEPT !.players[p] = remove_card(game.players[p], kind, count).player]
        /\ last_call' = [op |-> "remove_card", player |-> p, kind |-> kind, count |-> count,
                         ok |-> remove_card(game.players[p], kind, count).ok,
                         before |-> game.players[p]]
        /\ UNCHANGED <<pc, loop_round, deckVars>>

HandNext == HandDrawEvolution \/ HandReplenish \/ HandForfeit

HandSpec == HandInit /\ [][HandNext]_vars

\* the hand-limit invariant of player p
within_hand_limit(p) == StrategyCount(game.players[p]) <= get_hand_limit(game.players[p])

\* C1, as amended: right after a Player.add_card that added a Cooperation or
\* a Deception card returns, the player holds at most
\* max(0, evolution_count // 2 + hand_limit_bonus) strategy cards.
HandLimitAfterStrategyCard ==
    (last_call.op = "add_card" /\ last_call.kind \in {"COOPERATION", "DECEPTION"})
        => within_hand_limit(last_call.player)

\* C1 as stated: the same after the addition of an Evolution card as well
HandLimitAfterAnyCard ==
    last_call.op = "add_card" => within_hand_limit(last_call.player)

\* a strategy card was added to a hand that was over its limit, and the
\* hand is at its limit after the discards
StrategyCardAddedAtLimit ==
    /\ last_call.op = "add_card"
    /\ last_call.kind = "COOPERATION"
    /\ get_evolution_card_count(game.players[last_call.player]) = 3
    /\ StrategyCount(game.players[last_call.player]) = 1
    /\ game.players[last_call.player].hand["COOPERATION"] = 0

\* the cards of one kind in all hands
held(kind) ==
    LET f[i \in 0 .. NumPlayers] ==
            IF i = 0 THEN 0 ELSE f[i - 1] + game.players[i - 1].hand[kind]
    IN  f[NumPlayers]

\* C2: for the Cooperation, the Deception and the Evolution deck, draw pile
\* plus discard pile plus the cards of that kind in all hands is the number
\* of cards minted for the deck (25, 25, 125) in every reachable state.
DeckConservation ==
    /\ game.cooperation_deck.cards + game.cooperation_deck.discard_pile + held("COOPERATION")
           = CooperationCards
    /\ game.deception_deck.cards + game.deception_deck.discard_pile + held("DECEPTION")
           = DeceptionCards
    /\ game.evolution_deck.cards + game.evolution_deck.discard_pile + held("EVOLUTION")
           = EvolutionCards

\* C17: Player.remove_card(kind, count) on a hand holding fewer than count
\* cards of that kind returns False and leaves the whole hand unchanged;
\* with at least count cards held it returns True and removes exactly count
\* cards of that kind and no card of any other kind.
RemoveCardAllOrNothing ==
    last_call.op = "remove_card" =>
        LET before == last_call.before
            after == game.players[last_call.player]
        IN  IF before.hand[last_call.kind] < last_call.count
            THEN ~last_call.ok /\ after.hand = before.hand
            ELSE /\ last_call.ok
                 /\ after.hand = [before.hand EXCEPT ![last_call.kind] = @ - last_call.count]

\* remove_card was asked for two cards of a kind the hand held one of
RemoveCardRefused ==
    /\ last_call.op = "remove_card"
    /\ last_call.count = 2
    /\ last_call.before.hand[last_call.kind] = 1
    /\ ~last_call.ok

(***************************************************************************)
(* TrustSpec: one resolve_trust_evolution, from the games a player can     *)
(* land on a TrustEvolution tile in: the hands of the deal, a hand that    *)
(* forfeited Evolution cards or played its Deception card, one player      *)
(* holding ability cards that bear on the tile.                            *)
(***************************************************************************)
\* the ability cards resolve_trust_evolution and its calls read
TrustAbilities ==
    {"altruism_gene", "symbiosis_bond", "group_deterrence", "strategy_transform",
     "tenacious_vitality"}

TrustGames ==
    {[g EXCEPT !.current_player_index = cur,
               !.players[holder].abilities = abilities,
               !.players[holder].symbiosis_target =
                   IF "symbiosis_bond" \in abilities THEN partner ELSE NoPlayer,
               !.players[holder].hand["DECEPTION"] = IF played THEN 0 ELSE @,
               !.players[poor].hand["EVOLUTION"] = @ - forfeited,
               !.evolution_deck.cards = stock] :
        g \in InitialGames, cur \in Players, holder \in Players, poor \in Players,
        partner \in Players, forfeited \in {0, 3}, stock \in {0, EvolutionCards - 5 * NumPlayers},
        played \in BOOLEAN,
        abilities \in {A \in SUBSET TrustAbilities : Cardinality(A) <= TrustAbilitiesHeld}}

TrustInit ==
    /\ game \in TrustGames
    /\ pc = "trust_evolution"
    /\ loop_round = 0
    /\ last_call = [op |-> "none", player |-> NoPlayer, kind |-> "None"]
    /\ IdleDeck

\* self.resolve_trust_evolution(player)
TrustResolve ==
    /\ pc = "trust_evolution"
    /\ game' \in resolve_trust_evolution(game, game.current_player_index)
    /\ pc' = "resolved"
    /\ UNCHANGED <<loop_round, last_call, deckVars>>

TrustNext == TrustResolve

TrustSpec == TrustInit /\ [][TrustNext]_vars

\* the two players of pair x of the settlement loop targeted each other
mutual(x) ==
    /\ dict_has(game.trust.targets, x.player)
    /\ dict_has(game.trust.targets, x.target)
    /\ dict_get(game.trust.targets, x.player) = x.target
    /\ dict_get(game.trust.targets, x.target) = x.player

\* C9: resolve_trust_evolution applies a payoff to a pair of players only
\* if the two targeted each other.
PayoffOnlyToMutualPairs ==
    \A i \in 1 .. Len(game.trust.settled) : mutual(game.trust.settled[i])

\* a resolution that settled a pair whose players had not targeted each other
PayoffToOneSidedPair ==
    /\ pc = "resolved"
    /\ \E i \in 1 .. Len(game.trust.settled) : ~mutual(game.trust.settled[i])

\* the Evolution cards in the deck of snapshot k
stock_of(k) == k.evolution_deck.cards + k.evolution_deck.discard_pile

\* pair x of the settlement loop played Cooperate against Cooperate
both_cooperated(x) ==
    game.trust.actions[x.player] = "COOPERATE" /\ game.trust.actions[x.target] = "COOPERATE"

\* the Evolution cards a settlement of x can deal: one for a bond between the
\* two, one for each holder of 利他基因 among them
bonus_cards(x) ==
    LET pl == game.players[x.player]
        tg == game.players[x.target]
    IN  (IF pl.symbiosis_target = x.target \/ tg.symbiosis_target = x.player THEN 1 ELSE 0)
        + (IF has_ability(pl, "altruism_gene") THEN 1 ELSE 0)
        + (IF has_ability(tg, "altruism_gene") THEN 1 ELSE 0)

EveryActionPaidWithACard ==
    pc = "resolved" =>
        \A q \in Players : game.trust.actions[q] # "None" => game.trust.paid[q]

(***************************************************************************)
(* HawkSpec: one resolve_hawk_dove in three steps (the opponent and the    *)
(* two cards; card use and payoff; 捕食本能 and the replenishment), from   *)
(* the games a player can land on a HawkDove tile in: the hands of the     *)
(* deal, a player who forfeited Evolution cards or played a strategy card, *)
(* a player eliminated, a free challenge won on a Sanctuary tile, one      *)
(* player holding an ability card that bears on the tile.                  *)
(***************************************************************************)
\* the ability cards resolve_hawk_dove and its calls read
HawkAbilities == {"predator_instinct", "tenacious_vitality", "strategy_transform", "truce"}

\* the player eliminated: no Evolution card left
eliminate(g, q) ==
    IF q = NoPlayer THEN g
    ELSE [g EXCEPT !.players[q].hand["EVOLUTION"] = 0, !.players[q].is_eliminated = TRUE]

HawkGames ==
    {eliminate([g EXCEPT !.current_player_index = cur,
                         !.players[holder].abilities = abilities,
                         !.players[holder].prey_target =
                             IF "predator_instinct" \in abilities THEN (holder + 1) % NumPlayers
                             ELSE NoPlayer,
                         !.players[poor].hand["EVOLUTION"] = @ - forfeited,
                         !.players[poor].hand[played] = 0,
                         !.players[cur].free_challenge_target =
                             IF challenge THEN (cur + NumPlayers - 1) % NumPlayers ELSE NoPlayer],
               out) :
        g \in InitialGames, cur \in Players, holder \in Players, poor \in Players,
        forfeited \in {0, 4}, played \in {"COOPERATION", "DECEPTION"}, challenge \in BOOLEAN,
        out \in Players \cup {NoPlayer},
        abilities \in {A \in SUBSET HawkAbilities : Cardinality(A) <= HawkAbilitiesHeld}}

HawkInit ==
    /\ game \in {g \in HawkGames : ~g.players[g.current_player_index].is_eliminated}
    /\ pc = "hawk_dove"
    /\ loop_round = 0
    /\ last_call = [op |-> "none", player |-> NoPlayer, opponent |-> NoPlayer,
                    current_action |-> "None", opponent_action |-> "None", before |-> game]
    /\ IdleDeck

\* resolve_hawk_dove up to the two cards chosen; it returns when there is no
\* opponent, under 停战协议 and when one of the two holds no strategy card
HawkChallenge ==
    /\ pc = "hawk_dove"
    /\ \E x \in hawk_opponents(game, current) :
           IF x.opponent = NoPlayer
           THEN /\ game' = x.g
                /\ pc' = "resolved"
                /\ last_call' = [last_call EXCEPT !.op = "resolve_hawk_dove", !.player = current]
           ELSE IF has_ability(x.g.players[current], "truce")
                   \/ has_ability(x.g.players[x.opponent], "truce")
           THEN /\ game' \in hawk_truce(x.g, current, x.opponent)
                /\ pc' = "resolved"
                /\ last_call' = [last_call EXCEPT !.op = "truce", !.player = current,
                                                  !.opponent = x.opponent]
           ELSE \E y \in hawk_actions(x.g, current, x.opponent) :
                    /\ game' = y.g
                    /\ pc' = IF y.current_action = "None" THEN "resolved" ELSE "played"
                    /\ last_call' = [op |-> "resolve_hawk_dove", player |-> current,
                                     opponent |-> x.opponent,
                                     current_action |-> y.current_action,
                                     opponent_action |-> y.opponent_action, before |-> y.g]
    /\ UNCHANGED <<loop_round, deckVars>>

\* resolve_hawk_dove: 使用一张牌, 结算效果
HawkPayoff ==
    /\ pc = "played"
    /\ game' = hawk_payoff(game, last_call.player, last_call.opponent,
                           last_call.current_action, last_call.opponent_action)
    /\ pc' = "paid"
    /\ UNCHANGED <<loop_round, last_call, deckVars>>

\* resolve_hawk_dove: 捕食本能效果, replenish_strategy_cards
HawkFinish ==
    /\ pc = "paid"
    /\ game' \in hawk_finish(game, last_call.player, last_call.opponent,
                             last_call.current_action, last_call.opponent_action)
    /\ pc' = "resolved"
    /\ UNCHANGED <<loop_round, last_call, deckVars>>

HawkNext == HawkChallenge \/ HawkPayoff \/ HawkFinish

HawkSpec == HawkInit /\ [][HawkNext]_vars

\* one of the two played Deceive and the other Cooperate
hawk_against_dove ==
    /\ last_call.op = "resolve_hawk_dove"
    /\ {last_call.current_action, last_call.opponent_action} = {"COOPERATE", "DECEIVE"}
    /\ last_call.before.evolution_deck.cards >= 3

\* the one who played Deceive, the one who played Cooperate
deceiver == IF last_call.current_action = "DECEIVE" THEN last_call.player ELSE last_call.opponent
cooperator == IF last_call.current_action = "DECEIVE" THEN last_call.opponent ELSE last_call.player

HawkAgainstHawkForfeit ==
    (/\ pc = "paid"
     /\ last_call.op = "resolve_hawk_dove"
     /\ last_call.current_action = "DECEIVE" /\ last_call.opponent_action = "DECEIVE") =>
        \A q \in {last_call.player, last_call.opponent} :
            LET held_before == last_call.before.players[q].hand["EVOLUTION"]
            IN  ~has_ability(game.players[q], "tenacious_vitality")
                    => game.players[q].hand["EVOLUTION"] = held_before - Min(2, held_before)

\* C36: the truce of 停战协议 lasts until the start of the drawing player's
\* next own turn: a HawkDove tile resolved in a player's own turn counts as
\* Cooperate vs Cooperate only under a truce of the opponent, the player's
\* own having ended when the turn began.
TruceEndsAtOwnTurn ==
    last_call.op = "truce"
        => has_ability(last_call.before.players[last_call.opponent], "truce")

(***************************************************************************)
(* SanctuarySpec: one resolve_cooperation_sanctuary and the hawk-dove      *)
(* resolutions that follow it, from the games a player can land on a       *)
(* CooperationSanctuary tile in: the hands of the deal, a player who       *)
(* played a strategy card, a player eliminated, either turn direction, one *)
(* player holding an ability card that bears on the tile.                  *)
(***************************************************************************)
\* the ability cards resolve_cooperation_sanctuary and its calls read
SanctuaryAbilities == {"strategy_transform", "altruism_gene", "symbiosis_bond"}

SanctuaryGames ==
    {eliminate([g EXCEPT !.current_player_index = cur,
                         !.turn_order_clockwise = clockwise,
                         !.players[holder].abilities = abilities,
                         !.players[holder].symbiosis_target =
                             IF "symbiosis_bond" \in abilities THEN (holder + 1) % NumPlayers
                             ELSE NoPlayer,
                         !.players[poor].hand[played] = 0],
               out) :
        g \in InitialGames, cur \in Players, holder \in Players, poor \in Players,
        played \in {"COOPERATION", "DECEPTION"}, clockwise \in BOOLEAN,
        out \in Players \cup {NoPlayer},
        abilities \in {A \in SUBSET SanctuaryAbilities : Cardinality(A) <= SanctuaryAbilitiesHeld}}

SanctuaryInit ==
    /\ game \in {g \in SanctuaryGames : ~g.players[g.current_player_index].is_eliminated}
    /\ pc = "sanctuary"
    /\ loop_round = 0
    /\ last_call = [op |-> "none", player |-> NoPlayer,
                    actions |-> Table([q \in Players |-> "None"]), before |-> game]
    /\ IdleDeck

\* self.resolve_cooperation_sanctuary(player)
SanctuaryResolve ==
    /\ pc = "sanctuary"
    /\ \E x \in play_cards(game) :
           /\ game' \in ForEach({x.g}, PlayerList,
                                LAMBDA h, q : sanctuary_settle(h, q, x.actions))
           /\ last_call' = [op |-> "resolve_cooperation_sanctuary", player |-> current,
                            actions |-> x.actions, before |-> game]
    /\ pc' = "granted"
    /\ UNCHANGED <<loop_round, deckVars>>

\* a later turn: a player in the game lands on a HawkDove tile,
\* self.resolve_hawk_dove(player)
SanctuaryChallenge ==
    /\ pc = "granted"
    /\ loop_round < MaxChallenges
    /\ \E p \in Players :
           /\ ~game.players[p].is_eliminated
           /\ game' \in resolve_hawk_dove([game EXCEPT !.current_player_index = p], p)
           /\ last_call' = [op |-> "resolve_hawk_dove", player |-> p,
                            actions |-> last_call.actions, before |-> game]
    /\ loop_round' = loop_round + 1
    /\ UNCHANGED <<pc, deckVars>>

SanctuaryNext == SanctuaryResolve \/ SanctuaryChallenge

SanctuarySpec == SanctuaryInit /\ [][SanctuaryNext]_vars

\* the Evolution cards player q gained in the last call
evolution_gain(q) ==
    game.players[q].hand["EVOLUTION"] - last_call.before.players[q].hand["EVOLUTION"]

\* the players who played Cooperate, Deceive in the last sanctuary
sanctuary_cooperators == {q \in Players : last_call.actions[q] = "COOPERATE"}
sanctuary_deceivers == {q \in Players : last_call.actions[q] = "DECEIVE"}

\* C21: in resolve_cooperation_sanctuary (no ability card in play, Evolution
\* deck large enough), when exactly two players cooperate each of them ends
\* the resolution with exactly 3 more Evolution cards; a cooperator with no
\* other cooperator draws 0; a deceiver draws exactly 4.
SanctuaryPayoff ==
    (/\ last_call.op = "resolve_cooperation_sanctuary"
     /\ \A q \in Players : last_call.before.players[q].abilities = {})
        => /\ Cardinality(sanctuary_cooperators) = 2
                  => \A q \in sanctuary_cooperators : evolution_gain(q) = 3
           /\ Cardinality(sanctuary_cooperators) = 1
                  => \A q \in sanctuary_cooperators : evolution_gain(q) = 0
           /\ \A q \in sanctuary_deceivers : evolution_gain(q) = 4

\* the player next in turn order after d: where next_player moves the turn
\* from d (d itself when nobody else is in the game)
next_in_turn_order(g, d) ==
    next_player([g EXCEPT !.current_player_index = d]).current_player_index

\* C22: each Deceive play in CooperationSanctuary grants the player next in
\* turn order after the deceiver (the next player in the game in the turn
\* direction) a free challenge on that deceiver; the flag is redeemed as
\* the opponent of that player's next hawk-dove resolution and is cleared
\* by it.
FreeChallengeGrantedToNextInTurnOrder ==
    /\ last_call.op = "resolve_cooperation_sanctuary"
           => \A d \in sanctuary_deceivers :
                  next_in_turn_order(game, d) # d
                      => game.players[next_in_turn_order(game, d)].free_challenge_target = d
    /\ last_call.op = "resolve_hawk_dove"
           => game.players[last_call.player].free_challenge_target = NoPlayer

(***************************************************************************)
(* SwampSpec: one resolve_deception_swamp from the deal, with at most      *)
(* SwampAbilitiesHeld of the abilities the resolver reads in one player's  *)
(* hand, SwampPlayers players holding strategy cards (one of them short of *)
(* one kind) and the others holding none, in the game or out of it.        *)
(***************************************************************************)
SwampAbilities == {"strategy_transform", "defense_mechanism", "opportunist"}

SwampGames ==
    {LET spent == [g EXCEPT !.players[holder].abilities = abilities,
                            !.ability_deck.cards = @ \ abilities,
                            !.players[poor].hand[played] = 0]
         idle == [spent EXCEPT !.players =
                      Table([q \in Players |->
                                IF q \in hands THEN spent.players[q]
                                ELSE [spent.players[q] EXCEPT !.hand["COOPERATION"] = 0,
                                                              !.hand["DECEPTION"] = 0]])]
     IN  IF out THEN ForEach({idle}, PlayerList,
                             LAMBDA h, q : {IF q \in hands THEN h ELSE eliminate(h, q)})
         ELSE {idle} :
        g \in InitialGames, holder \in Players, poor \in Players,
        played \in {"COOPERATION", "DECEPTION"}, out \in BOOLEAN,
        hands \in {H \in SUBSET Players : Cardinality(H) = SwampPlayers},
        abilities \in {A \in SUBSET SwampAbilities : Cardinality(A) <= SwampAbilitiesHeld}}

SwampInit ==
    /\ game \in {g \in UNION SwampGames : ~g.players[g.current_player_index].is_eliminated}
    /\ pc = "swamp"
    /\ loop_round = 0
    /\ last_call = [op |-> "none", player |-> NoPlayer,
                    actions |-> Table([q \in Players |-> "None"]),
                    targets |-> Table([q \in Players |-> NoPlayer]), before |-> game]
    /\ IdleDeck

\* target = random.choice(deception_players), one per Cooperate player when
\* somebody played Deceive: targets[q] = NoPlayer for everybody else
swamp_targets(actions) ==
    LET deception_players == {q \in Players : actions[q] = "DECEIVE"}
    IN  {Table(t) : t \in {f \in [Players -> deception_players \cup {NoPlayer}] :
             \A q \in Players :
                 f[q] = NoPlayer <=> (actions[q] # "COOPERATE" \/ deception_players = {})}}

\* self.resolve_deception_swamp(player)
SwampResolve ==
    /\ pc = "swamp"
    /\ \E x \in play_cards(game) :
           /\ game' \in ForEach({x.g}, PlayerList,
                                LAMBDA h, q : swamp_settle(h, q, x.actions))
           /\ \E t \in swamp_targets(x.actions) :
                  last_call' = [op |-> "resolve_deception_swamp",
                                player |-> game.current_player_index,
                                actions |-> x.actions, targets |-> t, before |-> game]
    /\ pc' = "settled"
    /\ UNCHANGED <<loop_round, deckVars>>

SwampNext == SwampResolve

SwampSpec == SwampInit /\ [][SwampNext]_vars

ability_gain(q) ==
    Cardinality(game.players[q].abilities) - Cardinality(last_call.before.players[q].abilities)

swamp_blocked == {last_call.targets[q] : q \in Players} \ {NoPlayer}

\* C23: in resolve_deception_swamp a Deceive player whom a Cooperate player
\* chose to block gains no Ability card and the blocking player draws
\* exactly 1 Evolution card; a Deceive player nobody blocked gains exactly
\* 1 Ability card.
SwampBlockStopsTheGain ==
    last_call.op = "resolve_deception_swamp"
        => /\ \A d \in sanctuary_deceivers :
                  ability_gain(d) = (IF d \in swamp_blocked THEN 0 ELSE 1)
           /\ \A c \in Players :
                  last_call.targets[c] # NoPlayer => evolution_gain(c) = 1

(***************************************************************************)
(* E3Spec: EvolutionGameE3 (src/pre-edit), the turns of one player around  *)
(* the board: position, Evolution cards in hand, evolution points and the  *)
(* Evolution deck.  The resolvers of the tiles other than the END tile     *)
(* move at most E3Swing Evolution cards into or out of the hand.           *)
(***************************************************************************)
\* GameBoard.__init__ (grid_count), the index of GridType.END in grid_types
E3GridCount == 24
E3EndPosition == 23
\* check_win_conditions: get_evolution_card_count() >= 20
E3VictoryCards == 20

\* Player.__init__ and setup_game: 5 Evolution cards each
E3NewGame ==
    [player |-> [position |-> 0, evolution |-> 5, evolution_points |-> 0, eliminated |-> FALSE],
     evolution_deck |-> 125 - 5 * NumPlayers,
     game_over |-> FALSE]

\* EvolutionGame.draw_card(self.evolution_deck, current_player, EVOLUTION)
e3_draw_card(g) ==
    IF g.evolution_deck > 0
    THEN [g EXCEPT !.evolution_deck = @ - 1, !.player.evolution = @ + 1]
    ELSE g

e3_draw_cards(g, count) ==
    LET f[i \in 0 .. count] == IF i = 0 THEN g ELSE e3_draw_card(f[i - 1])
    IN  f[count]

\* EvolutionGame.resolve_end_grid
resolve_end_grid(g) ==
    [e3_draw_cards(g, 3) EXCEPT !.player.evolution_points = @ + 2]

\* EvolutionGame.optional_actions: 兑换进化点数 or nothing the model holds
e3_optional_actions(g) ==
    {g} \cup {[e3_draw_cards(g, points_to_spend)
                  EXCEPT !.player.evolution_points = @ - points_to_spend] :
                 points_to_spend \in 1 .. g.player.evolution_points}

\* EvolutionGame.check_win_conditions, for the one player
e3_check_win_conditions(g) ==
    IF ~g.player.eliminated /\ g.player.evolution >= E3VictoryCards
    THEN [g EXCEPT !.game_over = TRUE]
    ELSE IF g.player.evolution = 0 THEN [g EXCEPT !.player.eliminated = TRUE]
         ELSE g

E3Init ==
    /\ game = E3NewGame
    /\ pc = "roll"
    /\ loop_round = 0
    /\ last_call = [op |-> "none", landings |-> 0, before |-> game]
    /\ IdleDeck

\* play_turn, 阶段一: dice_roll = self.roll_dice(); position moves
E3Roll ==
    /\ pc = "roll"
    /\ ~game.game_over
    /\ ~game.player.eliminated
    /\ loop_round < E3MaxTurns
    /\ \E dice_roll \in 1 .. 6 :
           game' = [game EXCEPT !.player.position = (@ + dice_roll) % E3GridCount]
    /\ last_call' = [last_call EXCEPT !.op = "roll_dice", !.before = game]
    /\ pc' = "landed"
    /\ UNCHANGED <<loop_round, deckVars>>

\* resolve_grid_event, grid_type == GridType.END
E3ResolveEndGrid ==
    /\ pc = "landed"
    /\ game.player.position = E3EndPosition
    /\ game' = resolve_end_grid(game)
    /\ last_call' = [op |-> "resolve_end_grid", landings |-> last_call.landings + 1,
                     before |-> game]
    /\ pc' = "optional"
    /\ UNCHANGED <<loop_round, deckVars>>

\* resolve_grid_event, the other grid types
E3ResolveOther ==
    /\ pc = "landed"
    /\ game.player.position # E3EndPosition
    /\ \E swing \in (0 - E3Swing) .. E3Swing :
           /\ game.player.evolution + swing >= 0
           /\ swing <= game.evolution_deck
           /\ game' = [game EXCEPT !.player.evolution = @ + swing,
                                   !.evolution_deck = IF swing > 0 THEN @ - swing ELSE @]
    /\ last_call' = [last_call EXCEPT !.op = "resolve_grid_event", !.before = game]
    /\ pc' = "optional"
    /\ UNCHANGED <<loop_round, deckVars>>

\* play_turn, 阶段三 to the end of the turn
E3EndTurn ==
    /\ pc = "optional"
    /\ \E g \in e3_optional_actions(game) : game' = e3_check_win_conditions(g)
    /\ last_call' = [last_call EXCEPT !.op = "optional_actions", !.before = game]
    /\ pc' = "roll"
    /\ loop_round' = loop_round + 1
    /\ UNCHANGED deckVars

E3Next == E3Roll \/ E3ResolveEndGrid \/ E3ResolveOther \/ E3EndTurn

E3Spec == E3Init /\ [][E3Next]_vars

\* C24: in EvolutionGameE3 the player gets the END tile's reward (3 Evolution
\* cards and 2 evolution points) only at the first landing on the tile;
\* every later landing changes neither the hand nor the points.
FinishRewardOnlyOnce ==
    last_call.op = "resolve_end_grid"
        => IF last_call.landings = 1
           THEN /\ game.player.evolution = last_call.before.player.evolution + 3
                /\ game.player.evolution_points = last_call.before.player.evolution_points + 2
           ELSE /\ game.player.evolution = last_call.before.player.evolution
                /\ game.player.evolution_points = last_call.before.player.evolution_points

(***************************************************************************)
(* RevealSpec: the before_reveal queries the tile resolvers make for the   *)
(* players who hold both kinds of strategy card, from the deal with at     *)
(* most RevealAbilitiesHeld of the abilities the query reads in one        *)
(* player's hand.                                                          *)
(***************************************************************************)
RevealAbilities == {"strategy_transform", "altruism_gene", "scheme_master"}

RevealGames ==
    {[g EXCEPT !.players[holder].abilities = abilities,
               !.ability_deck.cards = @ \ abilities] :
        g \in InitialGames, holder \in Players,
        abilities \in {A \in SUBSET RevealAbilities : Cardinality(A) <= RevealAbilitiesHeld}}

RevealInit ==
    /\ game \in RevealGames
    /\ pc = "reveal"
    /\ loop_round = 0
    /\ last_call = [op |-> "none", player |-> NoPlayer, action |-> "None", ret |-> "None",
                    before |-> game]
    /\ IdleDeck

\* original_choice = random.choice([COOPERATE, DECEIVE]);
\* final_choice = self.apply_ability_effects(player, original_choice,
\*                    "before_reveal", original_action=original_choice)
RevealQuery ==
    /\ pc = "reveal"
    /\ loop_round < MaxQueries
    /\ \E p \in Players, original_choice \in {"COOPERATE", "DECEIVE"} :
           /\ ~game.players[p].is_eliminated
           /\ game.players[p].hand["COOPERATION"] > 0 /\ game.players[p].hand["DECEPTION"] > 0
           /\ \E x \in apply_ability_effects(game, p, original_choice, "before_reveal",
                                             NoPlayer, original_choice) :
                  /\ game' = x.g
                  /\ last_call' = [op |-> "apply_ability_effects", player |-> p,
                                   action |-> original_choice, ret |-> x.ret, before |-> game]
    /\ loop_round' = loop_round + 1
    /\ UNCHANGED <<pc, deckVars>>

\* play_turn: current_player.reset_turn_flags()
RevealTurnStart ==
    /\ pc = "reveal"
    /\ \E p \in Players :
           /\ game.players[p].strategy_transform_used
           /\ game' = [game EXCEPT !.players[p] = reset_turn_flags(@)]
           /\ last_call' = [op |-> "reset_turn_flags", player |-> p, action |-> "None",
                            ret |-> "None", before |-> game]
    /\ UNCHANGED <<pc, loop_round, deckVars>>

RevealNext == RevealQuery \/ RevealTurnStart

RevealSpec == RevealInit /\ [][RevealNext]_vars

\* C27: a before_reveal query only flips the declared action and sets the
\* player's strategy_transform_used flag: no card moves between a deck and
\* a hand, and no ability with another trigger (利他基因's draw) fires.
BeforeRevealOnlyFlips ==
    last_call.op = "apply_ability_effects"
        => /\ [game EXCEPT !.players[last_call.player].strategy_transform_used =
                              last_call.before.players[last_call.player].strategy_transform_used]
                  = last_call.before
           /\ last_call.ret \in {"None", opposite(last_call.action)}

(***************************************************************************)
(* E2Spec: EvolutionGameE2(x) (src/pre-edit), E2Players players from the   *)
(* deal on, the turns that land on the tiles whose resolution draws from   *)
(* the Cooperation, Deception, Event and Ability decks (TRUST_EVOLUTION,   *)
(* MUTATION_EVENT, EVOLUTION_LAB), and three games in progress as          *)
(* random.seed(n) before the construction leaves them at the head of       *)
(* play_game's loop.  Hands and decks are card counts; no call of this     *)
(* version puts a card on a discard pile.                                  *)
(***************************************************************************)
E2PlayerIds == 0 .. (E2Players - 1)
E2PlayerList == [i \in 1 .. E2Players |-> i - 1]

\* _initialize_decks: 25/25/125 cards, 5 event cards, 5 ability cards
E2StrategyCards == 25
E2EvolutionCards == 125
E2EventCards == 5
E2AbilityCards == 5
\* Player.has_won: len(self.evolution_cards) >= 20
E2VictoryCards == 20

\* _create_board: tile_types
e2_tile_types ==
    <<"START", "TRUST_EVOLUTION", "RESOURCE_RICH", "HAWK_DOVE", "NATURAL_DISASTER",
      "COOPERATION_SANCTUARY", "DECEPTION_SWAMP", "MUTATION_EVENT", "EVOLUTION_LAB", "END">>

\* the Cooperation cards dealt, coop[p] of them to player p
e2_dealt(coop) ==
    LET sum[i \in 0 .. E2Players] == IF i = 0 THEN 0 ELSE sum[i - 1] + coop[i - 1]
    IN  sum[E2Players]

\* Player.__init__ and the deal of _initialize_decks, coop[p] of the
\* len(players) - 1 strategy cards of each player being Cooperation cards
E2Deal(coop) ==
    [players |-> Table([p \in E2PlayerIds |->
         [position |-> 0,
          cooperation_cards |-> coop[p], deception_cards |-> (E2Players - 1) - coop[p],
          evolution_cards |-> 5, ability_cards |-> 0, event_cards |-> 0,
          evolution_points |-> 0, is_active |-> TRUE]]),
     current_player_index |-> 0,
     cooperation_deck |-> E2StrategyCards - e2_dealt(coop),
     deception_deck |-> E2StrategyCards - (E2Players * (E2Players - 1) - e2_dealt(coop)),
     evolution_deck |-> E2EvolutionCards - 5 * E2Players,
     event_deck |-> E2EventCards,
     ability_deck |-> E2AbilityCards,
     game_over |-> FALSE,
     raised |-> "none"]

\* random.seed(6), 40 turns played
E2LateGame1 ==
    [players |-> Table([p \in E2PlayerIds |-> <<
         [position |-> 3, cooperation_cards |-> 2, deception_cards |-> 2,
          evolution_cards |-> 9, ability_cards |-> 1, event_cards |-> 2,
          evolution_points |-> 10, is_active |-> TRUE],
         [position |-> 1, cooperation_cards |-> 3, deception_cards |-> 2,
          evolution_cards |-> 13, ability_cards |-> 2, event_cards |-> 2,
          evolution_points |-> 1, is_active |-> TRUE],
         [position |-> 1, cooperation_cards |-> 2, deception_cards |-> 5,
          evolution_cards |-> 16, ability_cards |-> 2, event_cards |-> 1,
          evolution_points |-> 1, is_active |-> TRUE]>>[p + 1]]),
     current_player_index |-> 1,
     cooperation_deck |-> 10, deception_deck |-> 8, evolution_deck |-> 65,
     event_deck |-> 0, ability_deck |-> 0,
     game_over |-> FALSE,
     raised |-> "none"]

\* random.seed(23), 70 turns played
E2LateGame2 ==
    [players |-> Table([p \in E2PlayerIds |-> <<
         [position |-> 9, cooperation_cards |-> 3, deception_cards |-> 2,
          evolution_cards |-> 9, ability_cards |-> 1, event_cards |-> 1,
          evolution_points |-> 3, is_active |-> TRUE],
         [position |-> 4, cooperation_cards |-> 1, deception_cards |-> 0,
          evolution_cards |-> 0, ability_cards |-> 1, event_cards |-> 0,
          evolution_points |-> 1, is_active |-> FALSE],
         [position |-> 1, cooperation_cards |-> 5, deception_cards |-> 0,
          evolution_cards |-> 11, ability_cards |-> 3, event_cards |-> 2,
          evolution_points |-> 4, is_active |-> TRUE]>>[p + 1]]),
     current_player_index |-> 0,
     cooperation_deck |-> 1, deception_deck |-> 12, evolution_deck |-> 76,
     event_deck |-> 2, ability_deck |-> 0,
     game_over |-> FALSE,
     raised |-> "none"]

\* random.seed(163), 59 turns played
E2LateGame3 ==
    [players |-> Table([p \in E2PlayerIds |-> <<
         [position |-> 1, cooperation_cards |-> 1, deception_cards |-> 4,
          evolution_cards |-> 14, ability_cards |-> 0, event_cards |-> 0,
          evolution_points |-> 4, is_active |-> TRUE],
         [position |-> 6, cooperation_cards |-> 3, deception_cards |-> 3,
          evolution_cards |-> 12, ability_cards |-> 3, event_cards |-> 2,
          evolution_points |-> 1, is_active |-> TRUE],
         [position |-> 5, cooperation_cards |-> 1, deception_cards |-> 4,
          evolution_cards |-> 8, ability_cards |-> 1, event_cards |-> 2,
          evolution_points |-> 3, is_active |-> TRUE]>>[p + 1]]),
     current_player_index |-> 2,
     cooperation_deck |-> 3, deception_deck |-> 0, evolution_deck |-> 53,
     event_deck |-> 1, ability_deck |-> 1,
     game_over |-> FALSE,
     raised |-> "none"]

E2Games ==
    {E2Deal(coop) : coop \in [E2PlayerIds -> 0 .. (E2Players - 1)]}
        \cup {E2LateGame1, E2LateGame2, E2LateGame3}

\* Player.get_hand_size_limit
get_hand_size_limit(pl) == pl.evolution_cards \div 2

\* Player.check_hand_size, one round of the loop: the Cooperation card goes
\* when there is one and random.random() < 0.5, else the Deception card when
\* there is one, else nothing
check_hand_size_step(pl) ==
    (IF pl.cooperation_cards > 0
     THEN {[pl EXCEPT !.cooperation_cards = @ - 1]} ELSE {})
    \cup {IF pl.deception_cards > 0 THEN [pl EXCEPT !.deception_cards = @ - 1] ELSE pl}

\* Player.check_hand_size: the hands it can leave
check_hand_size(pl) ==
    LET limit == get_hand_size_limit(pl)
        total_strategy_cards == pl.cooperation_cards + pl.deception_cards
        excess == total_strategy_cards - limit
        f[i \in 0 .. Max(0, excess)] ==
            IF i = 0 THEN {pl} ELSE UNION {check_hand_size_step(x) : x \in f[i - 1]}
    IN  IF total_strategy_cards > limit THEN f[excess] ELSE {pl}

\* card = deck.draw()[0]; p.add_card(card): Deck.draw returns [] when the
\* deck is empty and [0] raises IndexError
e2_draw_one(g, deck_name, p, hand_name) ==
    IF g.raised # "none" THEN g
    ELSE IF g[deck_name] = 0 THEN [g EXCEPT !.raised = "IndexError"]
    ELSE [g EXCEPT ![deck_name] = @ - 1, !.players[p][hand_name] = @ + 1]

\* for card in self.evolution_deck.draw(count): p.add_card(card)
e2_draw_evolution(g, p, count) ==
    LET n == Min(count, g.evolution_deck)
    IN  [g EXCEPT !.evolution_deck = @ - n, !.players[p].evolution_cards = @ + n]

\* resolve_trust_evolution, the body of the two loops for one pair
e2_trust_pair(g, p1, p2, choices) ==
    IF p1 = p2 \/ choices[p1] = "None" \/ choices[p2] = "None" THEN g
    ELSE IF choices[p1] = "COOPERATION" /\ choices[p2] = "COOPERATION"
    THEN [g EXCEPT !.players[p1].evolution_points = @ + 2,
                   !.players[p2].evolution_points = @ + 2]
    ELSE IF choices[p1] = "COOPERATION" /\ choices[p2] = "DECEPTION"
    THEN e2_draw_evolution([g EXCEPT !.players[p1].evolution_points = @ + 1], p2, 3)
    ELSE IF choices[p1] = "DECEPTION" /\ choices[p2] = "DECEPTION"
    THEN [g EXCEPT !.players[p1].evolution_cards = Max(0, @ - 1),
                   !.players[p2].evolution_cards = Max(0, @ - 1)]
    ELSE g

\* resolve_trust_evolution, the replenishment of one player
e2_replenish(g, p) ==
    IF ~g.players[p].is_active THEN {g}
    ELSE {e2_draw_one(g, "cooperation_deck", p, "cooperation_cards"),
          e2_draw_one(g, "deception_deck", p, "deception_cards")}

\* resolve_tile_event (TRUST_EVOLUTION) and resolve_trust_evolution
e2_trust_evolution(g, player) ==
    LET choosers == {p \in E2PlayerIds : g.players[p].is_active /\ p # player}
        choice_sets == {Table(c) : c \in {f \in [E2PlayerIds -> {"COOPERATION", "DECEPTION", "None"}] :
                             \A p \in E2PlayerIds : f[p] = "None" <=> p \notin choosers}}
        pairs(c) == ForEach({g}, E2PlayerList,
                        LAMBDA h, p1 : ForEach({h}, E2PlayerList,
                                           LAMBDA k, p2 : {e2_trust_pair(k, p1, p2, c)}))
    IN  UNION {ForEach(pairs(c), E2PlayerList, e2_replenish) : c \in choice_sets}

\* resolve_tile_event (MUTATION_EVENT)
e2_mutation_event(g, player) ==
    {e2_draw_one(g, "event_deck", player, "event_cards")}

\* resolve_tile_event (EVOLUTION_LAB)
e2_evolution_lab(g, player) ==
    IF g.players[player].evolution_cards >= 2
    THEN {e2_draw_one([g EXCEPT !.players[player].evolution_cards = @ - 2],
                      "ability_deck", player, "ability_cards")}
    ELSE {g}

\* resolve_tile_event up to the hand check
e2_tile(g, player, tile_type) ==
    CASE tile_type = "TRUST_EVOLUTION" -> e2_trust_evolution(g, player)
      [] tile_type = "MUTATION_EVENT" -> e2_mutation_event(g, player)
      [] tile_type = "EVOLUTION_LAB" -> e2_evolution_lab(g, player)

\* EvolutionGame.move_to_next_player
e2_move_to_next_player(g) ==
    LET seat(k) == (g.current_player_index + k) % E2Players
        ks == {k \in 1 .. E2Players : g.players[seat(k)].is_active}
    IN  [g EXCEPT !.current_player_index = seat(CHOOSE k \in ks : \A j \in ks : k <= j)]

\* play_turn after resolve_tile_event: 兑换进化点数, the player's status, the
\* next player, and play_game's check for a last survivor
e2_end_turn(g, player) ==
    LET spent == {g} \cup {[e2_draw_evolution(g, player, points_to_use)
                               EXCEPT !.players[player].evolution_points = @ - points_to_use] :
                              points_to_use \in 1 .. g.players[player].evolution_points}
        status(h) ==
            LET out == [h EXCEPT !.players[player].is_active =
                                     h.players[player].evolution_cards # 0]
                won == [out EXCEPT !.game_over =
                                       out.players[player].evolution_cards >= E2VictoryCards]
                moved == IF won.game_over
                            \/ \A p \in E2PlayerIds : ~won.players[p].is_active
                         THEN won ELSE e2_move_to_next_player(won)
            IN  [moved EXCEPT !.game_over =
                     @ \/ Cardinality({p \in E2PlayerIds : moved.players[p].is_active}) <= 1]
    IN  {status(h) : h \in spent}

E2Init ==
    /\ game \in E2Games
    /\ pc = "turn"
    /\ loop_round = 0
    /\ last_call = [op |-> "none", player |-> 0, before |-> game.players[0],
                    unchecked |-> game.players[0], checked |-> game.players[0]]
    /\ IdleDeck

\* player.position = (player.position + dice_roll) % len(self.tiles), for
\* the rolls that land on a tile of the type
e2_roll_to(g, player, tile_type) ==
    {[g EXCEPT !.players[player].position = (@ + dice_roll) % Len(e2_tile_types)] :
        dice_roll \in {d \in 1 .. 6 :
            e2_tile_types[((g.players[player].position + d) % Len(e2_tile_types)) + 1] = tile_type}}

\* play_turn of the current player landing on a tile of one of the three types
E2Turn(tile_type) ==
    /\ pc = "turn"
    /\ ~game.game_over
    /\ loop_round < E2MaxTurns
    /\ LET player == game.current_player_index
       IN  \E moved \in e2_roll_to(game, player, tile_type) :
           \E g \in e2_tile(moved, player, tile_type) :
               IF g.raised # "none"
               THEN /\ game' = g
                    /\ pc' = "raised"
                    /\ last_call' = [op |-> tile_type, player |-> player,
                                     before |-> game.players[player],
                                     unchecked |-> g.players[player],
                                     checked |-> g.players[player]]
               ELSE \E pl \in check_hand_size(g.players[player]) :
                        /\ game' \in e2_end_turn([g EXCEPT !.players[player] = pl], player)
                        /\ pc' = "turn"
                        /\ last_call' = [op |-> tile_type, player |-> player,
                                         before |-> game.players[player],
                                         unchecked |-> g.players[player], checked |-> pl]
    /\ loop_round' = loop_round + 1
    /\ UNCHANGED deckVars

E2Next == \E tile_type \in {"TRUST_EVOLUTION", "MUTATION_EVENT", "EVOLUTION_LAB"} : E2Turn(tile_type)

E2Spec == E2Init /\ [][E2Next]_vars

\* C29: a tile resolution that needs a card from a deck with nothing left
\* (Cooperation or Deception replenishment, Event card, Ability card)
\* under-delivers silently: the turn completes without raising.
EmptyDeckUnderDelivers == game.raised = "none"

\* C30: after check_hand_size the player's Cooperation and Deception cards
\* number at most len(evolution_cards) // 2; exactly the excess is removed
\* and no Evolution card is touched.
HandSizeWithinLimit ==
    (last_call.op # "none" /\ pc # "raised")
        => LET before == last_call.unchecked
               after == last_call.checked
               strategy_cards(pl) == pl.cooperation_cards + pl.deception_cards
           IN  /\ strategy_cards(after) <= get_hand_size_limit(after)
               /\ strategy_cards(after) = Min(strategy_cards(before), get_hand_size_limit(before))
               /\ after.evolution_cards = before.evolution_cards

(***************************************************************************)
(* BoardSpec: the board from GameBoard.initialize_grids on, under the      *)
(* environment changes that end the turns (environment_change with the     *)
(* board effects of its cards and of 生态改造).                            *)
(***************************************************************************)
BoardInit ==
    /\ game \in InitialGames
    /\ pc = "board"
    /\ loop_round = 0
    /\ last_call = [op |-> "initialize_grids", player |-> NoPlayer, kind |-> "None"]
    /\ IdleDeck

\* play_turn: self.environment_change(current_player); self.next_player()
BoardEnvironmentChange ==
    /\ pc = "board"
    /\ loop_round < MaxChanges
    /\ game' \in {next_player(s) : s \in environment_change(game, game.current_player_index)}
    /\ loop_round' = loop_round + 1
    /\ last_call' = [op |-> "environment_change", player |-> game.current_player_index, kind |-> "None"]
    /\ UNCHANGED <<pc, deckVars>>

BoardNext == BoardEnvironmentChange

BoardSpec == BoardInit /\ [][BoardNext]_vars

\* the tiles of one type
tiles(grid_type) == {i \in Positions : get_grid(game.board, i) = grid_type}

\* C6: the board holds exactly one Start tile and exactly one Finish tile in
\* every reachable state, from the board built by GameBoard.initialize_grids
\* through any sequence of environment changes.
OneStartOneFinish ==
    /\ Cardinality(tiles("START")) = 1
    /\ Cardinality(tiles("FINISH")) = 1

(***************************************************************************)
(* NearestSpec: GameBoard.find_nearest_grid_by_type asked of the board     *)
(* built by initialize_grids and of the boards NearestChanges environment  *)
(* changes make of it.                                                     *)
(***************************************************************************)
NearestInit ==
    /\ game \in InitialGames
    /\ pc = "nearest"
    /\ loop_round = 0
    /\ last_call = [op |-> "initialize_grids", kind |-> "None", from_position |-> 0, pos |-> -1]
    /\ IdleDeck

\* play_turn: self.environment_change(current_player); self.next_player()
NearestEnvironmentChange ==
    /\ pc = "nearest"
    /\ loop_round < NearestChanges
    /\ game' \in {next_player(s) : s \in environment_change(game, game.current_player_index)}
    /\ loop_round' = loop_round + 1
    /\ last_call' = [op |-> "environment_change", kind |-> "None", from_position |-> 0, pos |-> -1]
    /\ UNCHANGED <<pc, deckVars>>

\* pos = self.board.find_nearest_grid_by_type(grid_type, from_position)
NearestQuery ==
    /\ pc = "nearest"
    /\ \E grid_type \in GridTypes, from_position \in Positions :
           last_call' = [op |-> "find_nearest_grid_by_type", kind |-> grid_type,
                         from_position |-> from_position,
                         pos |-> find_nearest_grid_by_type(game.board, grid_type, from_position)]
    /\ pc' = "asked"
    /\ UNCHANGED <<game, loop_round, deckVars>>

NearestNext == NearestEnvironmentChange \/ NearestQuery

NearestSpec == NearestInit /\ [][NearestNext]_vars

\* the distances on the ring from one position to another
forward_steps(from, to) == (to - from) % GridCount
backward_steps(from, to) == (from - to) % GridCount

\* the tiles of the type asked for other than from_position, and the least
\* of their distances
other_tiles == tiles(last_call.kind) \ {last_call.from_position}
nearest_steps ==
    LET ds == {forward_steps(last_call.from_position, p) : p \in other_tiles}
                  \cup {backward_steps(last_call.from_position, p) : p \in other_tiles}
    IN  CHOOSE d \in ds : \A e \in ds : d <= e
nearest_forward == (last_call.from_position + nearest_steps) % GridCount
nearest_backward == (last_call.from_position - nearest_steps) % GridCount

\* C28: find_nearest_grid_by_type returns None exactly when no tile other
\* than from_position has the type; otherwise the tile it returns has the
\* type and lies at the smaller of the forward and backward distances, the
\* forward one when both are equal.
NearestGridIsNearest ==
    last_call.op = "find_nearest_grid_by_type"
        => IF other_tiles = {} THEN last_call.pos = -1
           ELSE /\ last_call.pos \in other_tiles
                /\ last_call.pos = IF nearest_forward \in other_tiles
                                   THEN nearest_forward ELSE nearest_backward

\* the function was asked for a type with tiles equally far forward and
\* backward, after an environment change
NearestGridTie ==
    /\ last_call.op = "find_nearest_grid_by_type"
    /\ loop_round > 0
    /\ other_tiles # {}
    /\ nearest_forward # nearest_backward
    /\ {nearest_forward, nearest_backward} \subseteq other_tiles
    /\ last_call.pos = nearest_forward

(***************************************************************************)
(* Games in progress: the EvolutionGame object at the head of play_game's  *)
(* loop after 98 turns, as random.seed(n) before the construction leaves  *)
(* it.                                                                     *)
(***************************************************************************)
\* random.seed(1236)
LateGame1 ==
    [players |-> Table([q \in Players |-> <<
      [position |-> 3, hand |-> [COOPERATION |-> 0, DECEPTION |-> 0, EVOLUTION |-> 18, EVENT |-> 0],
       evolution_points |-> 0, abilities |-> {"defense_mechanism", "predator_instinct"}, used |-> {}, is_eliminated |-> FALSE,
       symbiosis_target |-> -1, prey_target |-> 1, immune_to_disaster |-> FALSE, cannot_move_next_turn |-> FALSE,
       hand_limit_bonus |-> 0, evolution_requirement_reduction |-> 0, free_challenge_target |-> -1,
       energy_absorption_active |-> FALSE, energy_absorption_rounds |-> 0, climate_change_active |-> FALSE,
       climate_change_rounds |-> 0, forced_hawk_dove_target |-> -1, forced_deceive |-> FALSE,
       population_boom_active |-> FALSE, rich_land_active |-> FALSE, strategy_transform_used |-> FALSE,
       visited_finish |-> FALSE],
      [position |-> 8, hand |-> [COOPERATION |-> 0, DECEPTION |-> 0, EVOLUTION |-> 15, EVENT |-> 0],
       evolution_points |-> 0, abilities |-> {"evolution_advantage"}, used |-> {}, is_eliminated |-> FALSE,
       symbiosis_target |-> -1, prey_target |-> -1, immune_to_disaster |-> FALSE, cannot_move_next_turn |-> FALSE,
       hand_limit_bonus |-> 0, evolution_requirement_reduction |-> 2, free_challenge_target |-> -1,
       energy_absorption_active |-> FALSE, energy_absorption_rounds |-> 0, climate_change_active |-> FALSE,
       climate_change_rounds |-> 0, forced_hawk_dove_target |-> -1, forced_deceive |-> FALSE,
       population_boom_active |-> FALSE, rich_land_active |-> FALSE, strategy_transform_used |-> FALSE,
       visited_finish |-> FALSE],
      [position |-> 10, hand |-> [COOPERATION |-> 0, DECEPTION |-> 0, EVOLUTION |-> 0, EVENT |-> 0],
       evolution_points |-> 0, abilities |-> {"eco_engineering", "environment_adaptation", "population_resilience"}, used |-> {}, is_eliminated |-> TRUE,
       symbiosis_target |-> -1, prey_target |-> -1, immune_to_disaster |-> FALSE, cannot_move_next_turn |-> FALSE,
       hand_limit_bonus |-> 0, evolution_requirement_reduction |-> 0, free_challenge_target |-> -1,
       energy_absorption_active |-> FALSE, energy_absorption_rounds |-> 0, climate_change_active |-> FALSE,
       climate_change_rounds |-> 0, forced_hawk_dove_target |-> -1, forced_deceive |-> FALSE,
       population_boom_active |-> FALSE, rich_land_active |-> FALSE, strategy_transform_used |-> FALSE,
       visited_finish |-> FALSE]>>[q + 1]]),
     board |-> Table([i \in Positions |-> <<
       "START", "DECEPTION_SWAMP", "TRUST_EVOLUTION", "DECEPTION_SWAMP",
       "HAWK_DOVE", "COOPERATION_SANCTUARY", "NATURAL_DISASTER", "MUTATION_EVENT",
       "NATURAL_DISASTER", "NATURAL_DISASTER", "TRUST_EVOLUTION", "RESOURCE_RICH",
       "HAWK_DOVE", "COOPERATION_SANCTUARY", "DECEPTION_SWAMP", "MUTATION_EVENT",
       "EVOLUTION_LAB", "RESOURCE_RICH", "COOPERATION_SANCTUARY", "NATURAL_DISASTER",
       "HAWK_DOVE", "RESOURCE_RICH", "DECEPTION_SWAMP", "MUTATION_EVENT">>[i + 1]]),
     current_player_index |-> 1, turn_order_clockwise |-> FALSE, game_over |-> FALSE, winner |-> -1,
     round_count |-> 98, last_event_card |-> "predation", climate_pleasant_active |-> FALSE,
     environment_deterioration_active |-> FALSE, environment_deterioration_rounds |-> 0,
     cooperation_deck |-> [cards |-> 8, discard_pile |-> 0], deception_deck |-> [cards |-> 12, discard_pile |-> 0],
     evolution_deck |-> [cards |-> 75, discard_pile |-> 0],
     event_deck |-> [cards |-> {"energy_absorption", "evolution_acceleration", "foresight", "intensified_competition", "miracle", "natural_selection", "population_boom", "predator_appears", "resource_scarcity", "territory_dispute", "truce"}, discard_pile |-> {}],
     environment_change_deck |-> [cards |-> {}, discard_pile |-> {}],
     ability_deck |-> [cards |-> {"altruism_gene", "disaster_expert", "efficient_metabolism", "evolution_burst", "group_deterrence", "last_stand", "opportunist", "rapid_adaptation", "resource_control", "scheme_master", "strategy_transform", "symbiosis_bond", "tactical_upgrade", "tenacious_vitality"}, discard_pile |-> {}],
     raised |-> "none", trust |-> NoTrust]

\* random.seed(16853)
LateGame2 ==
    [players |-> Table([q \in Players |-> <<
      [position |-> 11, hand |-> [COOPERATION |-> 0, DECEPTION |-> 0, EVOLUTION |-> 10, EVENT |-> 0],
       evolution_points |-> 0, abilities |-> {"efficient_metabolism", "evolution_advantage", "resource_control", "tactical_upgrade"}, used |-> {}, is_eliminated |-> FALSE,
       symbiosis_target |-> -1, prey_target |-> -1, immune_to_disaster |-> FALSE, cannot_move_next_turn |-> FALSE,
       hand_limit_bonus |-> 0, evolution_requirement_reduction |-> 2, free_challenge_target |-> -1,
       energy_absorption_active |-> FALSE, energy_absorption_rounds |-> 0, climate_change_active |-> FALSE,
       climate_change_rounds |-> 0, forced_hawk_dove_target |-> -1, forced_deceive |-> FALSE,
       population_boom_active |-> FALSE, rich_land_active |-> FALSE, strategy_transform_used |-> FALSE,
       visited_finish |-> FALSE],
      [position |-> 23, hand |-> [COOPERATION |-> 0, DECEPTION |-> 0, EVOLUTION |-> 1, EVENT |-> 0],
       evolution_points |-> 0, abilities |-> {"disaster_expert", "strategy_transform"}, used |-> {}, is_eliminated |-> FALSE,
       symbiosis_target |-> -1, prey_target |-> -1, immune_to_disaster |-> FALSE, cannot_move_next_turn |-> FALSE,
       hand_limit_bonus |-> 0, evolution_requirement_reduction |-> 0, free_challenge_target |-> -1,
       energy_absorption_active |-> FALSE, energy_absorption_rounds |-> 0, climate_change_active |-> TRUE,
       climate_change_rounds |-> 2, forced_hawk_dove_target |-> -1, forced_deceive |-> FALSE,
       population_boom_active |-> FALSE, rich_land_active |-> FALSE, strategy_transform_used |-> FALSE,
       visited_finish |-> FALSE],
      [position |-> 17, hand |-> [COOPERATION |-> 0, DECEPTION |-> 0, EVOLUTION |-> 18, EVENT |-> 0],
       evolution_points |-> 0, abilities |-> {"altruism_gene", "evolution_burst", "group_deterrence", "rapid_adaptation"}, used |-> {}, is_eliminated |-> FALSE,
       symbiosis_target |-> -1, prey_target |-> -1, immune_to_disaster |-> FALSE, cannot_move_next_turn |-> FALSE,
       hand_limit_bonus |-> 0, evolution_requirement_reduction |-> 0, free_challenge_target |-> -1,
       energy_absorption_active |-> FALSE, energy_absorption_rounds |-> 0, climate_change_active |-> FALSE,
       climate_change_rounds |-> 0, forced_hawk_dove_target |-> -1, forced_deceive |-> FALSE,
       population_boom_active |-> FALSE, rich_land_active |-> FALSE, strategy_transform_used |-> FALSE,
       visited_finish |-> FALSE]>>[q + 1]]),
     board |-> Table([i \in Positions |-> <<
       "START", "RESOURCE_RICH", "DECEPTION_SWAMP", "TRUST_EVOLUTION",
       "HAWK_DOVE", "COOPERATION_SANCTUARY", "COOPERATION_SANCTUARY", "NATURAL_DISASTER",
       "EVOLUTION_LAB", "NATURAL_DISASTER", "TRUST_EVOLUTION", "NATURAL_DISASTER",
       "HAWK_DOVE", "DECEPTION_SWAMP", "DECEPTION_SWAMP", "MUTATION_EVENT",
       "EVOLUTION_LAB", "RESOURCE_RICH", "TRUST_EVOLUTION", "NATURAL_DISASTER",
       "HAWK_DOVE", "COOPERATION_SANCTUARY", "DECEPTION_SWAMP", "MUTATION_EVENT">>[i + 1]]),
     current_player_index |-> 0, turn_order_clockwise |-> FALSE, game_over |-> FALSE, winner |-> -1,
     round_count |-> 98, last_event_card |-> "climate_upheaval", climate_pleasant_active |-> FALSE,
     environment_deterioration_active |-> FALSE, environment_deterioration_rounds |-> 0,
     cooperation_deck |-> [cards |-> 3, discard_pile |-> 0], deception_deck |-> [cards |-> 8, discard_pile |-> 0],
     evolution_deck |-> [cards |-> 67, discard_pile |-> 0],
     event_deck |-> [cards |-> {"accelerated_evolution", "cooperation_wave", "disease_spread", "ecological_collapse", "energy_absorption", "evolution_acceleration", "fraud_carnival", "gene_mutation", "miracle", "mutualism", "natural_selection", "population_boom", "predation", "resource_scarcity", "rich_land", "space_jump", "territory_dispute", "three_way_game", "truce"}, discard_pile |-> {}],
     environment_change_deck |-> [cards |-> {}, discard_pile |-> {}],
     ability_deck |-> [cards |-> {"defense_mechanism", "eco_engineering", "environment_adaptation", "last_stand", "opportunist", "population_resilience", "predator_instinct", "scheme_master", "symbiosis_bond", "tenacious_vitality"}, discard_pile |-> {}],
     raised |-> "none", trust |-> NoTrust]

\* random.seed(238027)
LateGame3 ==
    [players |-> Table([q \in Players |-> <<
      [position |-> 10, hand |-> [COOPERATION |-> 0, DECEPTION |-> 0, EVOLUTION |-> 1, EVENT |-> 0],
       evolution_points |-> 0, abilities |-> {"defense_mechanism", "efficient_metabolism", "last_stand", "resource_control", "tenacious_vitality"}, used |-> {"last_stand"}, is_eliminated |-> FALSE,
       symbiosis_target |-> -1, prey_target |-> -1, immune_to_disaster |-> FALSE, cannot_move_next_turn |-> FALSE,
       hand_limit_bonus |-> 0, evolution_requirement_reduction |-> 0, free_challenge_target |-> -1,
       energy_absorption_active |-> FALSE, energy_absorption_rounds |-> 0, climate_change_active |-> FALSE,
       climate_change_rounds |-> 0, forced_hawk_dove_target |-> -1, forced_deceive |-> FALSE,
       population_boom_active |-> FALSE, rich_land_active |-> FALSE, strategy_transform_used |-> FALSE,
       visited_finish |-> FALSE],
      [position |-> 18, hand |-> [COOPERATION |-> 0, DECEPTION |-> 0, EVOLUTION |-> 1, EVENT |-> 0],
       evolution_points |-> 0, abilities |-> {"disaster_expert", "evolution_advantage", "group_deterrence", "symbiosis_bond"}, used |-> {}, is_eliminated |-> FALSE,
       symbiosis_target |-> 0, prey_target |-> -1, immune_to_disaster |-> FALSE, cannot_move_next_turn |-> FALSE,
       hand_limit_bonus |-> 0, evolution_requirement_reduction |-> 2, free_challenge_target |-> -1,
       energy_absorption_active |-> FALSE, energy_absorption_rounds |-> 0, climate_change_active |-> FALSE,
       climate_change_rounds |-> 0, forced_hawk_dove_target |-> -1, forced_deceive |-> FALSE,
       population_boom_active |-> FALSE, rich_land_active |-> FALSE, strategy_transform_used |-> FALSE,
       visited_finish |-> FALSE],
      [position |-> 11, hand |-> [COOPERATION |-> 0, DECEPTION |-> 0, EVOLUTION |-> 0, EVENT |-> 0],
       evolution_points |-> 0, abilities |-> {"eco_engineering", "environment_adaptation", "evolution_burst"}, used |-> {}, is_eliminated |-> TRUE,
       symbiosis_target |-> -1, prey_target |-> -1, immune_to_disaster |-> FALSE, cannot_move_next_turn |-> FALSE,
       hand_limit_bonus |-> 0, evolution_requirement_reduction |-> 0, free_challenge_target |-> -1,
       energy_absorption_active |-> FALSE, energy_absorption_rounds |-> 0, climate_change_active |-> FALSE,
       climate_change_rounds |-> 0, forced_hawk_dove_target |-> -1, forced_deceive |-> FALSE,
       population_boom_active |-> FALSE, rich_land_active |-> FALSE, strategy_transform_used |-> FALSE,
       visited_finish |-> FALSE]>>[q + 1]]),
     board |-> Table([i \in Positions |-> <<
       "START", "COOPERATION_SANCTUARY", "TRUST_EVOLUTION", "DECEPTION_SWAMP",
       "HAWK_DOVE", "COOPERATION_SANCTUARY", "DECEPTION_SWAMP", "MUTATION_EVENT",
       "EVOLUTION_LAB", "RESOURCE_RICH", "DECEPTION_SWAMP", "RESOURCE_RICH",
       "NATURAL_DISASTER", "COOPERATION_SANCTUARY", "DECEPTION_SWAMP", "MUTATION_EVENT",
       "EVOLUTION_LAB", "RESOURCE_RICH", "TRUST_EVOLUTION", "NATURAL_DISASTER",
       "HAWK_DOVE", "COOPERATION_SANCTUARY", "DECEPTION_SWAMP", "MUTATION_EVENT">>[i + 1]]),
     current_player_index |-> 1, turn_order_clockwise |-> FALSE, game_over |-> FALSE, winner |-> -1,
     round_count |-> 98, last_event_card |-> "territory_dispute", climate_pleasant_active |-> FALSE,
     environment_deterioration_active |-> FALSE, environment_deterioration_rounds |-> 0,
     cooperation_deck |-> [cards |-> 15, discard_pile |-> 0], deception_deck |-> [cards |-> 4, discard_pile |-> 0],
     evolution_deck |-> [cards |-> 90, discard_pile |-> 0],
     event_deck |-> [cards |-> {"cooperation_wave", "disease_spread", "ecological_collapse", "environmental_tolerance", "evolution_acceleration", "foresight", "fraud_carnival", "gene_mutation", "movement_suppression", "mutualism", "predation", "space_jump", "three_way_game", "truce"}, discard_pile |-> {}],
     environment_change_deck |-> [cards |-> {}, discard_pile |-> {}],
     ability_deck |-> [cards |-> {"altruism_gene", "opportunist", "population_resilience", "predator_instinct", "rapid_adaptation", "scheme_master", "strategy_transform", "tactical_upgrade"}, discard_pile |-> {}],
     raised |-> "none", trust |-> NoTrust]

\* random.seed(12711)
LateGame4 ==
    [players |-> Table([q \in Players |-> <<
      [position |-> 11, hand |-> [COOPERATION |-> 0, DECEPTION |-> 0, EVOLUTION |-> 7, EVENT |-> 0],
       evolution_points |-> 0, abilities |-> {"altruism_gene", "environment_adaptation", "opportunist", "population_resilience", "predator_instinct", "scheme_master", "strategy_transform", "tactical_upgrade"}, used |-> {}, is_eliminated |-> FALSE,
       symbiosis_target |-> -1, prey_target |-> 1, immune_to_disaster |-> FALSE, cannot_move_next_turn |-> FALSE,
       hand_limit_bonus |-> 0, evolution_requirement_reduction |-> 0, free_challenge_target |-> -1,
       energy_absorption_active |-> FALSE, energy_absorption_rounds |-> 0, climate_change_active |-> FALSE,
       climate_change_rounds |-> 0, forced_hawk_dove_target |-> -1, forced_deceive |-> FALSE,
       population_boom_active |-> FALSE, rich_land_active |-> FALSE, strategy_transform_used |-> FALSE,
       visited_finish |-> FALSE],
      [position |-> 14, hand |-> [COOPERATION |-> 0, DECEPTION |-> 0, EVOLUTION |-> 14, EVENT |-> 0],
       evolution_points |-> 0, abilities |-> {"defense_mechanism", "disaster_expert", "efficient_metabolism", "evolution_advantage", "evolution_burst", "tenacious_vitality"}, used |-> {}, is_eliminated |-> FALSE,
       symbiosis_target |-> -1, prey_target |-> -1, immune_to_disaster |-> FALSE, cannot_move_next_turn |-> FALSE,
       hand_limit_bonus |-> 0, evolution_requirement_reduction |-> 0, free_challenge_target |-> -1,
       energy_absorption_active |-> FALSE, energy_absorption_rounds |-> 0, climate_change_active |-> FALSE,
       climate_change_rounds |-> 0, forced_hawk_dove_target |-> -1, forced_deceive |-> FALSE,
       population_boom_active |-> FALSE, rich_land_active |-> FALSE, strategy_transform_used |-> FALSE,
       visited_finish |-> FALSE],
      [position |-> 11, hand |-> [COOPERATION |-> 0, DECEPTION |-> 0, EVOLUTION |-> 10, EVENT |-> 0],
       evolution_points |-> 0, abilities |-> {"eco_engineering", "group_deterrence", "last_stand", "rapid_adaptation", "resource_control", "symbiosis_bond"}, used |-> {}, is_eliminated |-> FALSE,
       symbiosis_target |-> 1, prey_target |-> -1, immune_to_disaster |-> FALSE, cannot_move_next_turn |-> FALSE,
       hand_limit_bonus |-> 0, evolution_requirement_reduction |-> 0, free_challenge_target |-> -1,
       energy_absorption_active |-> FALSE, energy_absorption_rounds |-> 0, climate_change_active |-> FALSE,
       climate_change_rounds |-> 0, forced_hawk_dove_target |-> -1, forced_deceive |-> FALSE,
       population_boom_active |-> FALSE, rich_land_active |-> FALSE, strategy_transform_used |-> FALSE,
       visited_finish |-> FALSE]>>[q + 1]]),
     board |-> Table([i \in Positions |-> <<
       "START", "DECEPTION_SWAMP", "TRUST_EVOLUTION", "EVOLUTION_LAB",
       "HAWK_DOVE", "DECEPTION_SWAMP", "DECEPTION_SWAMP", "MUTATION_EVENT",
       "EVOLUTION_LAB", "NATURAL_DISASTER", "TRUST_EVOLUTION", "NATURAL_DISASTER",
       "COOPERATION_SANCTUARY", "COOPERATION_SANCTUARY", "DECEPTION_SWAMP", "NATURAL_DISASTER",
       "EVOLUTION_LAB", "NATURAL_DISASTER", "TRUST_EVOLUTION", "RESOURCE_RICH",
       "HAWK_DOVE", "COOPERATION_SANCTUARY", "DECEPTION_SWAMP", "MUTATION_EVENT">>[i + 1]]),
     current_player_index |-> 1, turn_order_clockwise |-> FALSE, game_over |-> FALSE, winner |-> -1,
     round_count |-> 98, last_event_card |-> "intensified_competition", climate_pleasant_active |-> FALSE,
     environment_deterioration_active |-> FALSE, environment_deterioration_rounds |-> 0,
     cooperation_deck |-> [cards |-> 4, discard_pile |-> 0], deception_deck |-> [cards |-> 0, discard_pile |-> 0],
     evolution_deck |-> [cards |-> 52, discard_pile |-> 0],
     event_deck |-> [cards |-> {"climate_upheaval", "cooperation_wave", "energy_absorption", "evolution_acceleration", "foresight", "miracle", "population_boom", "position_chaos", "predation", "predator_appears", "resource_scarcity", "space_jump", "territory_dispute", "three_way_game", "truce"}, discard_pile |-> {}],
     environment_change_deck |-> [cards |-> {}, discard_pile |-> {}],
     ability_deck |-> [cards |-> {}, discard_pile |-> {}],
     raised |-> "none", trust |-> NoTrust]

LateGames == {LateGame1, LateGame2, LateGame3, LateGame4}

(***************************************************************************)
(* Spec: play_game, a step per phase of play_turn.  The games start at     *)
(* the head of play_game's loop, MaxTurns turns before the round cap.      *)
(***************************************************************************)
Init ==
    /\ game \in LateGames
    /\ pc = "loop"
    /\ loop_round = RoundCap - MaxTurns + 1
    /\ last_call = [op |-> "none", player |-> NoPlayer, kind |-> "None"]
    /\ IdleDeck

\* play_game: the loop condition holds and play_turn runs up to the move
BeginTurn ==
    /\ pc = "loop"
    /\ ~game.game_over /\ loop_round <= RoundCap
    /\ IF game.players[current].is_eliminated
       THEN /\ game' = next_player(game)
            /\ pc' = "loop"
            /\ loop_round' = loop_round + 1
       ELSE \E m \in roll_and_move(begin_turn(game)) :
                /\ game' = m.g
                /\ pc' = IF m.ret > 0 THEN "resolve" ELSE "optional"
                /\ loop_round' = loop_round
    /\ last_call' = [op |-> "play_turn", player |-> current, kind |-> "None"]
    /\ UNCHANGED deckVars

\* play_turn: self.resolve_grid_effect(current_player, new_grid), twice under
\* 富饶之地; an exception leaves play_turn and play_game
ResolveGrid ==
    /\ pc = "resolve"
    /\ \E s \in resolve_landing(game) :
           /\ game' = [s EXCEPT !.trust = NoTrust]
           /\ pc' = IF s.raised # "none" THEN "raised" ELSE "optional"
    /\ last_call' = [op |-> "resolve_grid_effect", player |-> current,
                     kind |-> get_grid(game.board, game.players[current].position)]
    /\ UNCHANGED <<loop_round, deckVars>>

\* play_turn: self.optional_actions(current_player)
OptionalActions ==
    /\ pc = "optional"
    /\ \E s \in optional_actions(game, current) :
           /\ game' = s
           /\ pc' = IF s.raised # "none" THEN "raised" ELSE "investigate"
    /\ last_call' = [op |-> "optional_actions", player |-> current, kind |-> "None"]
    /\ UNCHANGED <<loop_round, deckVars>>

\* play_turn: if random.random() < 0.3: self.ecological_investigation(current_player)
Investigate ==
    /\ pc = "investigate"
    /\ game' \in {game} \cup ecological_investigation(game, current)
    /\ pc' = "environment"
    /\ last_call' = [op |-> "ecological_investigation", player |-> current, kind |-> "None"]
    /\ UNCHANGED <<loop_round, deckVars>>

\* play_turn: self.environment_change(current_player)
EnvironmentChange ==
    /\ pc = "environment"
    /\ game' \in environment_change(game, current)
    /\ pc' = "elimination"
    /\ last_call' = [op |-> "environment_change", player |-> current, kind |-> "None"]
    /\ UNCHANGED <<loop_round, deckVars>>

\* play_turn: self.check_elimination()
CheckElimination ==
    /\ pc = "elimination"
    /\ game' = check_elimination(game)
    /\ pc' = "victory"
    /\ last_call' = [op |-> "check_elimination", player |-> current, kind |-> "None"]
    /\ UNCHANGED <<loop_round, deckVars>>

\* play_turn: if self.check_victory(): return, and play_game counts the round
CheckVictory ==
    /\ pc = "victory"
    /\ game' = check_victory(game).g
    /\ IF check_victory(game).ret
       THEN pc' = "loop" /\ loop_round' = loop_round + 1
       ELSE pc' = "advance" /\ loop_round' = loop_round
    /\ last_call' = [op |-> "check_victory", player |-> current, kind |-> "None"]
    /\ UNCHANGED deckVars

\* play_turn: self.next_player(), and play_game counts the round
Advance ==
    /\ pc = "advance"
    /\ game' = next_player(game)
    /\ pc' = "loop"
    /\ loop_round' = loop_round + 1
    /\ last_call' = [op |-> "next_player", player |-> current, kind |-> "None"]
    /\ UNCHANGED deckVars

\* play_game: the loop condition fails and play_game returns
EndGame ==
    /\ pc = "loop"
    /\ game.game_over \/ loop_round > RoundCap
    /\ pc' = "done"
    /\ last_call' = [op |-> "play_game", player |-> game.winner, kind |-> "None"]
    /\ UNCHANGED <<game, loop_round, deckVars>>

Next ==
    \/ BeginTurn
    \/ ResolveGrid
    \/ OptionalActions
    \/ Investigate
    \/ EnvironmentChange
    \/ CheckElimination
    \/ CheckVictory
    \/ Advance
    \/ EndGame

Spec == Init /\ [][Next]_vars

(***************************************************************************)
(* The turn engine: victory, elimination, the turn order, exceptions       *)
(***************************************************************************)
\* the players in the game who hold the Evolution cards their victory takes
at_threshold(g) == {q \in Players : ~g.players[q].is_eliminated /\ is_victorious(g.players[q])}

\* the cards and points of the players, and the tiles
holdings(g) == <<[q \in Players |-> <<g.players[q].hand, g.players[q].evolution_points>>], g.board>>

\* C3: as soon as a player in the game holds 20 - evolution_requirement_reduction
\* Evolution cards, even in the middle of a turn, the game ends with that
\* player as winner: no card, point or tile changes from then on, and the
\* turn ends with a winner who was at the threshold.
VictoryIsImmediate ==
    [][at_threshold(game) # {} =>
           /\ holdings(game') = holdings(game)
           /\ (pc' = "loop" => game'.game_over /\ game'.winner \in at_threshold(game))]_vars

\* the one-shot survival ability 绝境求生, not used yet
unused_last_stand(pl) == has_ability(pl, "last_stand") /\ "last_stand" \notin pl.used

\* C4: a player with no Evolution card at an elimination check and no unused
\* 绝境求生 is eliminated after the check, stays eliminated in every later
\* state, and is never the current player when a turn starts.
EliminationIsFinal ==
    [][/\ pc = "elimination" =>
              \A q \in Players :
                  (get_evolution_card_count(game.players[q]) = 0 /\ ~unused_last_stand(game.players[q]))
                      => game'.players[q].is_eliminated
       /\ \A q \in Players : game.players[q].is_eliminated => game'.players[q].is_eliminated
       /\ (pc' = "loop" /\ ~game'.game_over /\ loop_round' <= RoundCap)
              => ~game'.players[game'.current_player_index].is_eliminated]_vars

\* the players that are in the game when the model starts, whichever game it
\* starts from
starters == {q \in Players : \A g \in LateGames : ~g.players[q].is_eliminated}

\* a turn is about to start after a starter lost the last Evolution card and
\* was eliminated
TurnStartsAfterElimination ==
    /\ last_call.op = "next_player"
    /\ pc = "loop" /\ ~game.game_over /\ loop_round <= RoundCap
    /\ \E q \in starters :
           /\ game.players[q].is_eliminated
           /\ get_evolution_card_count(game.players[q]) = 0
           /\ game.current_player_index # q

\* the seat k places after the current player in the turn direction
seat_after(g, k) ==
    (g.current_player_index + (IF g.turn_order_clockwise THEN k ELSE NumPlayers - k)) % NumPlayers

\* the nearest player in the game after the current player in the turn direction
nearest_in_game(g) ==
    LET k == CHOOSE i \in 1 .. NumPlayers :
                 /\ ~g.players[seat_after(g, i)].is_eliminated
                 /\ \A j \in 1 .. (i - 1) : g.players[seat_after(g, j)].is_eliminated
    IN  seat_after(g, k)

NoExceptionEscapes == pc # "raised"

\* the players in the game who hold the most Evolution cards among them
leaders(g) ==
    {q \in Players :
        /\ ~g.players[q].is_eliminated
        /\ \A r \in Players :
               ~g.players[r].is_eliminated
                   => get_evolution_card_count(g.players[r]) <= get_evolution_card_count(g.players[q])}

\* C14: when play_game stops because the round cap is reached without a
\* victory, the winner is a player in the game who holds the most Evolution
\* cards among the players in the game.
RoundCapWinner ==
    (pc = "done" /\ loop_round > RoundCap /\ last_call.op = "play_game" /\ leaders(game) # {})
        => game.winner \in leaders(game)

\* every player is eliminated
all_eliminated(g) == \A q \in Players : g.players[q].is_eliminated

\* C15: whenever every player is eliminated (and check_victory, the statement
\* after check_elimination, has run) the game is over with no winner, and
\* no turn is played afterwards: play_game is at its loop test or has
\* returned, and the one step left to it is to return with the game unchanged.
AllEliminatedEndsTheGame ==
    [][/\ (all_eliminated(game') /\ pc' # "victory")
              => (game'.game_over /\ game'.winner = NoPlayer /\ pc' \in {"loop", "done"})
       /\ (all_eliminated(game) /\ pc # "victory") => (game' = game /\ pc' = "done")]_vars

\* play_game has returned from a game in which the last players in the game
\* were eliminated in the same turn
GameEndedWithNobodyLeft ==
    /\ pc = "done" /\ last_call.op = "play_game"
    /\ all_eliminated(game)
    /\ game.game_over /\ game.winner = NoPlayer

\* C16: once a player is eliminated their hand, abilities and
\* evolution_points never change again, whatever relation of another player
\* or lingering flag of their own refers to them.  Checked on the hawk-dove
\* resolutions, where the current player's free_challenge_target may be a
\* player who was eliminated after the challenge was granted.
EliminatedPlayersAreFrozen ==
    [][\A q \in Players :
           game.players[q].is_eliminated
               => /\ game'.players[q].hand = game.players[q].hand
                  /\ game'.players[q].abilities = game.players[q].abilities
                  /\ game'.players[q].evolution_points = game.players[q].evolution_points]_vars

\* the Ability cards in the two piles of the Ability deck
ability_stock(g) == g.ability_deck.cards \cup g.ability_deck.discard_pile

\* the draw and discard piles of the six decks
all_decks(g) ==
    <<g.cooperation_deck, g.deception_deck, g.evolution_deck, g.event_deck,
      g.environment_change_deck, g.ability_deck>>

\* C20: resolving an EvolutionLab tile is all-or-nothing: either the player
\* pays exactly 2 Evolution cards and one Ability card is drawn from the
\* Ability deck for them (进化爆发, when it is the card drawn, brings up to 3
\* Evolution cards at once), or neither the player's hand nor any deck
\* changes.
LabIsAllOrNothing ==
    [][(/\ pc = "resolve"
        /\ get_grid(game.board, game.players[current].position) = "EVOLUTION_LAB"
        /\ ~game.players[current].rich_land_active)
           => LET before == game.players[current]
                  after == game'.players[current]
                  drawn == ability_stock(game) \ ability_stock(game')
                  burst == IF drawn = {"evolution_burst"} THEN 3 ELSE 0
              IN  \/ /\ Cardinality(drawn) = 1
                     /\ ability_stock(game') \subseteq ability_stock(game)
                     /\ after.hand["EVOLUTION"] >= before.hand["EVOLUTION"] - 2
                     /\ after.hand["EVOLUTION"] <= before.hand["EVOLUTION"] - 2 + burst
                  \/ /\ after.hand = before.hand
                     /\ all_decks(game') = all_decks(game)]_vars


\* C25: a player whose cannot_move_next_turn flag is set when the move of
\* their turn begins stays where they are, the flag is cleared, and the turn
\* goes on with the optional actions (and from there to the environment
\* change, the elimination and victory checks and the advance).
CannotMoveSkipsOnlyTheMove ==
    [][(/\ pc = "loop"
        /\ ~game.game_over /\ loop_round <= RoundCap
        /\ ~game.players[current].is_eliminated
        /\ game.players[current].cannot_move_next_turn)
           => /\ game'.current_player_index = current
              /\ game'.players[current].position = game.players[current].position
              /\ ~game'.players[current].cannot_move_next_turn
              /\ pc' = "optional"]_vars

\* a turn has begun and its move was skipped
TurnWithoutAMove ==
    /\ last_call.op = "play_turn"
    /\ pc = "optional"
    /\ ~game.players[current].cannot_move_next_turn

Replays == {"first", "second"}

\* EvolutionGame.__init__: game_id, the head of the log, the decks and the deal
create_game(game_id, now) ==
    LET id == IF game_id = "None" THEN <<"strftime", now>> ELSE <<game_id>>
    IN  {[created |-> TRUE, game_id |-> id,
          log |-> <<<<"Evolution Game">>, <<"game_id">> \o id, <<"players", NumPlayers>>>>,
          g |-> g] : g \in InitialGames}

\* play_turn, the phase at one position of it: the pairs [g, pc] it can leave
replay_phase(g, at) ==
    LET to(S, next) == {[g |-> [s EXCEPT !.trust = NoTrust],
                         pc |-> IF s.raised # "none" THEN "raised" ELSE next] : s \in S}
    IN  CASE at = "loop" ->
                IF g.players[g.current_player_index].is_eliminated
                THEN {[g |-> next_player(g), pc |-> "turn_end"]}
                ELSE {[g |-> m.g, pc |-> IF m.ret > 0 THEN "resolve" ELSE "optional"] :
                         m \in roll_and_move(begin_turn(g))}
          [] at = "resolve" -> to(resolve_landing(g), "optional")
          [] at = "optional" -> to(optional_actions(g, g.current_player_index), "investigate")
          [] at = "investigate" ->
                to({g} \cup ecological_investigation(g, g.current_player_index), "environment")
          [] at = "environment" -> to(environment_change(g, g.current_player_index), "elimination")
          [] at = "elimination" -> {[g |-> check_elimination(g), pc |-> "victory"]}
          [] at = "victory" ->
                {[g |-> check_victory(g).g,
                  pc |-> IF check_victory(g).ret THEN "turn_end" ELSE "advance"]}
          [] at = "advance" -> {[g |-> next_player(g), pc |-> "turn_end"]}

ReplayInit ==
    /\ game = Table([r \in Replays |-> [created |-> FALSE, game_id |-> <<>>, log |-> <<>>, g |-> NewGame]])
    /\ pc = "create"
    /\ loop_round = 0
    /\ \E game_id \in {"None", "replay"} :
           last_call = [op |-> "none", game_id |-> game_id, steps |-> 0]
    /\ IdleDeck

\* datetime.datetime.now() moves on between the two constructions
ReplayTick ==
    /\ pc = "create"
    /\ loop_round < ReplayClock
    /\ loop_round' = loop_round + 1
    /\ UNCHANGED <<game, pc, last_call, deckVars>>

\* EvolutionGame(player_names, game_id), the second with the arguments and the
\* random outcomes of the first
ReplayCreate ==
    /\ pc = "create"
    /\ LET r == IF game.first.created THEN "second" ELSE "first"
       IN  \E c \in create_game(last_call.game_id, loop_round) :
               /\ r = "second" => c.g = game.first.g
               /\ game' = [game EXCEPT ![r] = c]
               /\ pc' = IF r = "second" THEN "created" ELSE "create"
    /\ last_call' = [last_call EXCEPT !.op = "EvolutionGame"]
    /\ UNCHANGED <<loop_round, deckVars>>

\* play_game in both games up to the head of its loop after 98 turns, with
\* the random outcomes of one of the recorded games
ReplayPlay ==
    /\ pc = "created"
    /\ \E g \in LateGames :
           game' = Table([r \in Replays |->
               [game[r] EXCEPT !.g = g, !.log = Append(@, <<"play_game", g.round_count>>)]])
    /\ pc' = "loop"
    /\ last_call' = [last_call EXCEPT !.op = "play_game"]
    /\ UNCHANGED <<loop_round, deckVars>>

\* a phase of play_turn in both games: the random outcome that takes the
\* first game to s takes the second, in the same state, to s as well
ReplayPhase ==
    /\ pc \notin {"create", "created", "raised", "turn_end"}
    /\ last_call.steps < ReplaySteps
    /\ game.first.g = game.second.g
    /\ \E s \in replay_phase(game.first.g, pc) :
           /\ game' = Table([r \in Replays |->
                  [game[r] EXCEPT !.g = s.g,
                                  !.log = Append(@, <<pc, game[r].g.current_player_index, s.pc>>)]])
           /\ pc' = s.pc
    /\ last_call' = [last_call EXCEPT !.op = "play_turn", !.steps = @ + 1]
    /\ UNCHANGED <<loop_round, deckVars>>

ReplayNext == ReplayTick \/ ReplayCreate \/ ReplayPlay \/ ReplayPhase

ReplaySpec == ReplayInit /\ [][ReplayNext]_vars

\* C31: two games created with the same player names and fed the same random
\* outcomes go through identical states and log events: the wall clock, object
\* identity and iteration order do not influence them.
ReplayIsIdentical ==
    (game.first.created /\ game.second.created) => game.first = game.second

(***************************************************************************)
(* The turn engine: the order of the phases                                *)
(***************************************************************************)
\* C32: play_turn of a player in the game runs its phases in the order
\* movement, tile resolution, optional actions, environment change,
\* elimination check, victory check, advance: each phase starts from the one
\* before it in the same turn, the victory check only from the elimination
\* check, and next_player only after a victory check that left the game on.
PhasesRunInOrder ==
    [][/\ last_call'.op = "resolve_grid_effect" => last_call.op = "play_turn"
       /\ last_call'.op = "optional_actions"
              => last_call.op \in {"play_turn", "resolve_grid_effect"}
       /\ last_call'.op = "ecological_investigation" => last_call.op = "optional_actions"
       /\ last_call'.op = "environment_change" => last_call.op = "ecological_investigation"
       /\ last_call'.op = "check_elimination" => last_call.op = "environment_change"
       /\ last_call'.op = "check_victory" => last_call.op = "check_elimination"
       /\ last_call'.op = "next_player"
              => last_call.op = "check_victory" /\ ~game.game_over
       /\ last_call'.op \notin {"play_turn", "play_game"}
              => /\ last_call'.player = last_call.player
                 /\ game.current_player_index = last_call.player
                 /\ ~game.players[last_call.player].is_eliminated \/ last_call.op # "play_turn"
       /\ (last_call.op = "check_victory" /\ game.game_over)
              => last_call'.op = "play_game"
      ]_vars

\* a turn went through its phases to next_player
TurnRanToNextPlayer ==
    last_call.op = "next_player" /\ pc = "loop" /\ ~game.game_over

(***************************************************************************)
(* Ability cards with a standing effect                                    *)
(***************************************************************************)
\* C33: a player who holds 进化优势 has evolution_requirement_reduction = 2
\* (wins with 18 Evolution cards), whichever way the card was obtained.
EvolutionAdvantageLowersRequirement ==
    \A q \in Players :
        has_ability(game.players[q], "evolution_advantage")
            => game.players[q].evolution_requirement_reduction = 2

\* C34: a player who holds 顽强生命力 has a hand limit of
\* evolution_count // 2 + 3.
TenaciousVitalityRaisesHandLimit ==
    \A q \in Players :
        has_ability(game.players[q], "tenacious_vitality")
            => /\ game.players[q].hand_limit_bonus >= 3
               /\ get_hand_limit(game.players[q])
                      >= (get_evolution_card_count(game.players[q]) \div 2) + 3

(***************************************************************************)
(* EffectSpec: the effects that span turns, from the deal on: the head of  *)
(* play_turn (the updates of the continuous and the global effects), its   *)
(* environment change and its end.  The phases in between (movement, tile  *)
(* resolution, optional actions, ecological investigation) read            *)
(* environment_deterioration_active and write neither it nor its counter.  *)
(* last_call.since counts the turns begun since 环境恶化 was drawn.        *)
(***************************************************************************)
EffectInit ==
    /\ game \in InitialGames
    /\ pc = "loop"
    /\ loop_round = 1
    /\ last_call = [op |-> "none", since |-> -1, changes |-> 0]
    /\ IdleDeck

\* play_turn up to reset_turn_flags
EffectBeginTurn ==
    /\ pc = "loop"
    /\ ~game.game_over /\ loop_round <= EffectTurns
    /\ IF game.players[current].is_eliminated
       THEN /\ game' = next_player(game)
            /\ pc' = "loop"
            /\ loop_round' = loop_round + 1
            /\ last_call' = [last_call EXCEPT !.op = "play_turn"]
       ELSE /\ game' = begin_turn(game)
            /\ pc' = "environment"
            /\ loop_round' = loop_round
            /\ last_call' = [last_call EXCEPT !.op = "play_turn",
                                              !.since = IF @ >= 0 THEN @ + 1 ELSE @]
    /\ UNCHANGED deckVars

\* play_turn: self.environment_change(current_player)
EffectEnvironmentChange ==
    /\ pc = "environment"
    /\ \E s \in environment_change(game, current) :
           LET drew == s.environment_change_deck # game.environment_change_deck
           IN  /\ drew => last_call.changes < EffectChanges
               /\ game' = s
               /\ pc' = IF s.raised # "none" THEN "raised" ELSE "end"
               /\ last_call' = [op |-> "environment_change",
                                since |-> IF drew /\ s.environment_deterioration_rounds = 2
                                          THEN 0 ELSE last_call.since,
                                changes |-> last_call.changes + (IF drew THEN 1 ELSE 0)]
    /\ UNCHANGED <<loop_round, deckVars>>

\* play_turn: check_elimination, check_victory and next_player; play_game
\* counts the round
EffectEndTurn ==
    /\ pc = "end"
    /\ LET v == check_victory(check_elimination(game))
       IN  game' = IF v.ret THEN v.g ELSE next_player(v.g)
    /\ pc' = "loop"
    /\ loop_round' = loop_round + 1
    /\ last_call' = [last_call EXCEPT !.op = "next_player"]
    /\ UNCHANGED deckVars

EffectNext == EffectBeginTurn \/ EffectEnvironmentChange \/ EffectEndTurn

EffectSpec == EffectInit /\ [][EffectNext]_vars

\* C35: after 环境恶化 is drawn in the environment change of turn T,
\* environment_deterioration_active is true during the tile resolution of
\* turns T+1 and T+2 and false from turn T+3 on.
DeteriorationLastsTwoTurns ==
    (pc = "environment" /\ last_call.since >= 1)
        => (game.environment_deterioration_active <=> last_call.since <= 2)

(***************************************************************************)
(* The turn engine: 富饶之地                                               *)
(***************************************************************************)
\* the events that resolve no tile, draw no event card, move nobody and leave
\* rich_land_active alone
PlainEvents ==
    {"truce", "energy_absorption", "population_boom", "environmental_tolerance",
     "climate_upheaval", "order_reversal", "evolution_acceleration", "foresight",
     "resource_scarcity", "trust_deficit", "movement_suppression", "fraud_carnival",
     "cooperation_wave"}

\* C37: 富饶之地 lets the current player trigger the effect of the tile they
\* stand on exactly one additional time in that turn: on the MutationEvent
\* tile where it is drawn, the landing and the one additional resolution draw
\* two event cards, no more (the other cards drawn being events that resolve
\* no tile themselves).
RichLandOneMoreResolution ==
    [][LET cp == game.current_player_index
           drawn_events == game.event_deck.cards \ game'.event_deck.cards
       IN  (/\ pc = "resolve" /\ pc' = "optional"
            /\ get_grid(game.board, game.players[cp].position) = "MUTATION_EVENT"
            /\ "rich_land" \in drawn_events
            /\ drawn_events \ {"rich_land"} \subseteq PlainEvents)
               => Cardinality(drawn_events) <= 2
      ]_vars

(***************************************************************************)
(* E3TrustSpec: EvolutionGameE3 (src/pre-edit), resolve_trust_evolution    *)
(* among all the players: every active player names a target and an        *)
(* action, the settlement loop walks the actions, and every active player  *)
(* replenishes a Cooperation or Deception card.  check_win_conditions ends *)
(* the turn.                                                               *)
(***************************************************************************)
\* initialize_decks and setup_game: 25 + 25 strategy cards, 125 Evolution
\* cards, len(players) - 1 strategy cards and 5 Evolution cards each
E3TrustNewGame ==
    [evolution |-> [p \in Players |-> 5],
     evolution_points |-> [p \in Players |-> 0],
     strategy |-> [p \in Players |-> NumPlayers - 1],
     eliminated |-> [p \in Players |-> FALSE],
     evolution_deck |-> 125 - 5 * NumPlayers,
     cooperation_deck |-> 25,
     deception_deck |-> 25,
     game_over |-> FALSE,
     winner |-> NoPlayer]

\* draw_card(self.evolution_deck, player, CardType.EVOLUTION)
e3_trust_draw(g, player) ==
    IF g.evolution_deck > 0
    THEN [g EXCEPT !.evolution_deck = @ - 1, !.evolution[player] = @ + 1]
    ELSE g

\* for _ in range(3): self.draw_card(self.evolution_deck, player, EVOLUTION)
e3_trust_draw3(g, player) ==
    e3_trust_draw(e3_trust_draw(e3_trust_draw(g, player), player), player)

\* if player.has_card_type(EVOLUTION): player.remove_card(EVOLUTION, 1)
e3_trust_forfeit(g, player) ==
    IF g.evolution[player] > 0 THEN [g EXCEPT !.evolution[player] = @ - 1] ELSE g

\* the choices of resolve_trust_evolution: actions[player] = (target, action)
\* for every active player who has another active player to name
E3TrustChoices(g) ==
    LET choosing == {p \in Players :
                        /\ ~g.eliminated[p]
                        /\ \E q \in Players : q # p /\ ~g.eliminated[q]}
    IN  {a \in [choosing -> [target : Players, action : {"COOPERATE", "DECEIVE"}]] :
            \A p \in choosing : a[p].target # p /\ ~g.eliminated[a[p].target]}

\* the body of the settlement loop for one entry of actions
e3_settle(g, actions, player) ==
    IF player \notin DOMAIN actions THEN g
    ELSE LET target == actions[player].target
             action == actions[player].action
         IN  IF ~(target \in DOMAIN actions /\ actions[target].target = player) THEN g
             ELSE LET target_action == actions[target].action
                  IN  IF action = "COOPERATE" /\ target_action = "COOPERATE"
                      THEN [g EXCEPT !.evolution_points[player] = @ + 2,
                                     !.evolution_points[target] = @ + 2]
                      ELSE IF action = "COOPERATE" /\ target_action = "DECEIVE"
                      THEN e3_trust_draw3([g EXCEPT !.evolution_points[player] = @ + 1],
                                          target)
                      ELSE IF action = "DECEIVE" /\ target_action = "COOPERATE"
                      THEN e3_trust_draw3([g EXCEPT !.evolution_points[target] = @ + 1],
                                          player)
                      ELSE e3_trust_forfeit(e3_trust_forfeit(g, player), target)

\* for player, (target, action) in actions.items(), in the order of insertion
e3_settle_all(g, actions) ==
    LET f[i \in 0 .. NumPlayers] ==
            IF i = 0 THEN g ELSE e3_settle(f[i - 1], actions, PlayerList[i])
    IN  f[NumPlayers]

\* the replenishment of one player: a Cooperation card on random() < 0.5 with
\* a card left in that deck, otherwise a Deception card if one is left
e3_replenish(g, player) ==
    IF g.eliminated[player] THEN {g}
    ELSE LET deception == IF g.deception_deck > 0
                          THEN [g EXCEPT !.deception_deck = @ - 1,
                                         !.strategy[player] = @ + 1]
                          ELSE g
         IN  {deception} \cup
             (IF g.cooperation_deck > 0
              THEN {[g EXCEPT !.cooperation_deck = @ - 1, !.strategy[player] = @ + 1]}
              ELSE {})

e3_replenish_all(g) ==
    LET f[i \in 0 .. NumPlayers] ==
            IF i = 0 THEN {g}
            ELSE UNION {e3_replenish(s, PlayerList[i]) : s \in f[i - 1]}
    IN  f[NumPlayers]

\* EvolutionGame.check_win_conditions over all the players
e3_trust_check_win_conditions(g) ==
    LET winners == {p \in Players : ~g.eliminated[p] /\ g.evolution[p] >= E3VictoryCards}
    IN  IF winners # {}
        THEN [g EXCEPT !.game_over = TRUE,
                       !.winner = CHOOSE p \in winners : \A q \in winners : p <= q]
        ELSE LET e == [g EXCEPT !.eliminated =
                                    [p \in Players |-> @[p] \/ g.evolution[p] = 0]]
                 active_players == {p \in Players : ~e.eliminated[p]}
             IN  IF Cardinality(active_players) = 1
                 THEN [e EXCEPT !.game_over = TRUE,
                                !.winner = CHOOSE p \in active_players : TRUE]
                 ELSE IF active_players = {} THEN [e EXCEPT !.game_over = TRUE]
                 ELSE e

E3TrustInit ==
    /\ game = E3TrustNewGame
    /\ pc = "landed"
    /\ loop_round = 0
    /\ last_call = [op |-> "none", before |-> game, actions |-> << >>]
    /\ IdleDeck

\* resolve_grid_event, grid_type == GridType.TRUST_EVOLUTION
E3TrustResolve ==
    /\ pc = "landed"
    /\ ~game.game_over
    /\ loop_round < E3TrustRounds
    /\ \E actions \in E3TrustChoices(game) :
           /\ game' \in e3_replenish_all(e3_settle_all(game, actions))
           /\ last_call' = [op |-> "resolve_trust_evolution", before |-> game,
                            actions |-> actions]
    /\ pc' = "check"
    /\ UNCHANGED <<loop_round, deckVars>>

\* play_turn: self.check_win_conditions() and the end of the turn
E3TrustEndTurn ==
    /\ pc = "check"
    /\ game' = e3_trust_check_win_conditions(game)
    /\ last_call' = [last_call EXCEPT !.op = "check_win_conditions"]
    /\ pc' = "landed"
    /\ loop_round' = loop_round + 1
    /\ UNCHANGED deckVars

E3TrustNext == E3TrustResolve \/ E3TrustEndTurn

E3TrustSpec == E3TrustInit /\ [][E3TrustNext]_vars

\* C38: in EvolutionGameE3 one resolution of the TRUST_EVOLUTION tile settles
\* every pair of players who name each other exactly once: two cooperators
\* gain 2 evolution points each; a deceiver against a cooperator draws 3
\* Evolution cards and the cooperator gains 1 point; two deceivers lose
\* min(1, held) Evolution card each.
MutualPairSettledOnce ==
    (last_call.op = "resolve_trust_evolution" /\ pc = "check")
        => \A p \in DOMAIN last_call.actions :
               LET q == last_call.actions[p].target
                   before == last_call.before
                   mine == last_call.actions[p].action
                   theirs == last_call.actions[q].action
                   points == game.evolution_points[p] - before.evolution_points[p]
                   cards == game.evolution[p] - before.evolution[p]
               IN  (last_call.actions[q].target = p /\ before.evolution_deck >= 3)
                       => /\ (mine = "COOPERATE" /\ theirs = "COOPERATE")
                                 => (points = 2 /\ cards = 0)
                          /\ (mine = "DECEIVE" /\ theirs = "COOPERATE")
                                 => (points = 0 /\ cards = 3)
                          /\ (mine = "COOPERATE" /\ theirs = "DECEIVE")
                                 => (points = 1 /\ cards = 0)
                          /\ (mine = "DECEIVE" /\ theirs = "DECEIVE")
                                 => (points = 0
                                     /\ cards = 0 - Min(1, before.evolution[p]))

(***************************************************************************)
(* DealSpec: EvolutionGame.__init__ for every number of players the game   *)
(* is built for: the decks are initialised and initial_deal deals the      *)
(* starting hands, through Player.add_card and its hand-limit check.       *)
(***************************************************************************)
\* the decks of a new game and player_count players without cards
NewTable(player_count) ==
    [player_count |-> player_count,
     players |-> [p \in 0 .. player_count - 1 |-> NewPlayer],
     cooperation_deck |-> [cards |-> CooperationCards, discard_pile |-> 0],
     deception_deck |-> [cards |-> DeceptionCards, discard_pile |-> 0],
     evolution_deck |-> [cards |-> EvolutionCards, discard_pile |-> 0]]

\* EvolutionGame.initial_deal, the body of the loop for player p of
\* len(self.players) players
deal_to(g, p) ==
    LET e == pile_draw(g.evolution_deck, 5)
        pl0 == [g.players[p] EXCEPT !.hand["EVOLUTION"] = @ + e.drawn]
        strategy_card_count == g.player_count - 1
        c == pile_draw(g.cooperation_deck, strategy_card_count \div 2)
        d == pile_draw(g.deception_deck, strategy_card_count - c.drawn)
    IN  {[g EXCEPT !.evolution_deck = e.deck, !.cooperation_deck = c.deck,
                   !.deception_deck = d.deck, !.players[p] = pl2] :
            pl2 \in UNION {add_cards(pl1, "DECEPTION", d.drawn) :
                              pl1 \in add_cards(pl0, "COOPERATION", c.drawn)}}

\* for player in self.players, in list order
deal_all(g) ==
    LET f[i \in 0 .. g.player_count] ==
            IF i = 0 THEN {g} ELSE UNION {deal_to(s, i - 1) : s \in f[i - 1]}
    IN  f[g.player_count]

DealInit ==
    /\ game \in {NewTable(player_count) : player_count \in MinDealPlayers .. MaxDealPlayers}
    /\ pc = "new"
    /\ loop_round = 0
    /\ last_call = [op |-> "none"]
    /\ IdleDeck

\* EvolutionGame.initial_deal
DealInitial ==
    /\ pc = "new"
    /\ game' \in deal_all(game)
    /\ pc' = "dealt"
    /\ last_call' = [op |-> "initial_deal"]
    /\ UNCHANGED <<loop_round, deckVars>>

DealNext == DealInitial

DealSpec == DealInit /\ [][DealNext]_vars

\* C39: after initial_deal every player holds 5 Evolution cards and
\* player_count - 1 strategy cards (Cooperation plus Deception), whatever the
\* number of players from 2 to 7.
InitialHandsComplete ==
    pc = "dealt"
        => \A p \in DOMAIN game.players :
               /\ game.players[p].hand["EVOLUTION"] = 5
               /\ StrategyCount(game.players[p]) = game.player_count - 1

\* the winner the game names, if any, is a player still in the game who
\* meets the Evolution requirement or is the only player left, and the game
\* is over
WinnerIsEntitled ==
    LET w == game.winner
    IN  w # NoPlayer
            => /\ game.game_over
               /\ ~game.players[w].is_eliminated
               /\ \/ game.players[w].hand["EVOLUTION"]
                         >= VictoryCards - game.players[w].evolution_requirement_reduction
                  \/ \A q \in Players \ {w} : game.players[q].is_eliminated

\* C40: winner is set only when game_over is true; a set winner is a player
\* not eliminated who holds at least 20 - evolution_requirement_reduction
\* Evolution cards or is the only player not eliminated; and once game_over is
\* true, game_over and winner never change again.
WinnerIsFinal ==
    [][/\ WinnerIsEntitled
       /\ WinnerIsEntitled'
       /\ game.game_over => (game'.game_over /\ game'.winner = game.winner)
      ]_vars

\* play_game has returned from a game that check_victory ended with a winner
GameEndedWithWinner ==
    /\ pc = "done"
    /\ game.game_over
    /\ game.winner # NoPlayer
    /\ last_call.op = "play_game"

=============================================================================
